---- MODULE Spec2Model ----
(***************************************************************************)
(* Request binding, validation and dispatch of frappeapi: one APIRoute     *)
(* serving requests one after the other through APIRoute.handle_request.   *)
(*                                                                         *)
(* Python values are uniform records [t, i, s, a]: t is the type tag, i an *)
(* integer payload, s a string payload, a the address of a mutable list    *)
(* object in `heap` (0 when the value is not a list) and d the items of a  *)
(* dict or model instance.  Dicts and multidicts are sequences of          *)
(* <<key, value>> pairs in insertion order.                                *)
(***************************************************************************)
EXTENDS Integers, Sequences, FiniteSets, TLC

\* ----------------------------------------------------------------- bounds
MaxItems == 2          \* items of a query string / header list / JSON object
MaxMutations == 1      \* elements the endpoint appends to a bound list
MaxFiles == 1          \* uploaded file objects of a form request
MaxScopes == 2         \* security scopes listed by a plan
MaxParams == 3         \* parameters handed to add_param_to_fields for one plan
MaxPairs == 2          \* pairs a multi-valued mapping is built from

\* ----------------------------------------------------------- Python values
PyNone == [t |-> "none", i |-> 0, s |-> "", a |-> 0, d |-> <<>>]
PyInt(n) == [t |-> "int", i |-> n, s |-> "", a |-> 0, d |-> <<>>]
PyStr(str) == [t |-> "str", i |-> 0, s |-> str, a |-> 0, d |-> <<>>]
PyList(addr) == [t |-> "list", i |-> 0, s |-> "", a |-> addr, d |-> <<>>]
PyDict(items) == [t |-> "dict", i |-> 0, s |-> "", a |-> 0, d |-> items]
PyModel(items) == [t |-> "model", i |-> 0, s |-> "", a |-> 0, d |-> items]
PyBytes(str) == [t |-> "bytes", i |-> 0, s |-> str, a |-> 0, d |-> <<>>]
PyUpload(f) == [t |-> "upload", i |-> f, s |-> "", a |-> 0, d |-> <<>>]

\* dict / multidict helpers over sequences of <<key, value>> pairs
RECURSIVE DictGet(_, _, _)
DictGet(items, key, dflt) ==
    IF items = <<>> THEN dflt
    ELSE IF items[Len(items)][1] = key THEN items[Len(items)][2]
    ELSE DictGet(SubSeq(items, 1, Len(items) - 1), key, dflt)

DictHas(items, key) == \E k \in 1..Len(items) : items[k][1] = key

RECURSIVE DictSet(_, _, _)
DictSet(items, key, val) ==
    IF items = <<>> THEN << <<key, val>> >>
    ELSE IF items[1][1] = key THEN << <<key, val>> >> \o Tail(items)
    ELSE <<items[1]>> \o DictSet(Tail(items), key, val)

RECURSIVE DictUpdate(_, _)
DictUpdate(items, other) ==
    IF other = <<>> THEN items
    ELSE DictUpdate(DictSet(items, other[1][1], other[1][2]), Tail(other))

RECURSIVE DictItems(_)
DictItems(list) ==
    IF list = <<>> THEN <<>>
    ELSE DictSet(DictItems(SubSeq(list, 1, Len(list) - 1)),
                 list[Len(list)][1], list[Len(list)][2])

\* MultiDict.items(): the first value of each key, in order of first arrival
RECURSIVE MultiDictItems(_)
MultiDictItems(list) ==
    IF list = <<>> THEN <<>>
    ELSE LET init == MultiDictItems(SubSeq(list, 1, Len(list) - 1))
         IN IF DictHas(init, list[Len(list)][1]) THEN init
            ELSE Append(init, list[Len(list)])

RECURSIVE getlist(_, _)
getlist(list, key) ==
    IF list = <<>> THEN <<>>
    ELSE (IF list[1][1] = key THEN <<list[1][2]>> ELSE <<>>) \o getlist(Tail(list), key)

\* ------------------------------------------------------------- the heap
\* Address 1 holds the list object a field descriptor declares as default.
DefaultAddr == 1
DeclaredDefault == <<"d">>
\* the object itself handed back, not a copy
deepcopy_same(h, v) == [heap |-> h, val |-> v]

deepcopy(h, v) ==
    IF v.t = "list"
    THEN [heap |-> Append(h, h[v.a]), val |-> PyList(Len(h) + 1)]
    ELSE [heap |-> h, val |-> v]

\* ------------------------------------------------------ field descriptors
Field(name, alias, in_, required, default, type) ==
    [name |-> name, alias |-> alias, in_ |-> in_, required |-> required,
     default |-> default, type |-> type]

is_sequence_field(field) == field.type = "seq"

\* status codes that may not carry a body
is_body_allowed_for_status_code(status_code) ==
    IF status_code = 0 THEN TRUE
    ELSE ~(status_code < 200 \/ status_code \in {204, 205, 304})

\* ------------------------------------------------------------ validation
Issue(type, loc) == [type |-> type, loc |-> loc]

get_missing_field_error(loc) == Issue("missing", loc)

\* the issues handed back with the locations the type adapter gave them
_regenerate_error_with_loc_asis(errors, loc_prefix) == errors

_regenerate_error_with_loc(errors, loc_prefix) ==
    [k \in 1..Len(errors) |-> [errors[k] EXCEPT !.loc = loc_prefix \o @]]

\* the integers a numeric string coerces to (lax mode)
IntOfStr(str) == CASE str = "5" -> 5 [] str = "7" -> 7 [] OTHER -> -1

\* the sub-fields of the one structured model the routes declare
ModelSubFields ==
    << Field("a", "a", "", TRUE, PyNone, "int"),
       Field("b", "b", "", FALSE, PyInt(0), "int") >>

\* the type adapter on a scalar or list input: [heap, val, errors], the
\* errors relative to the validated value
ValidateScalar(h, type, value) ==
    CASE type = "int" ->
           IF value.t = "int" THEN [heap |-> h, val |-> value, errors |-> <<>>]
           ELSE IF value.t = "str" /\ IntOfStr(value.s) >= 0
           THEN [heap |-> h, val |-> PyInt(IntOfStr(value.s)), errors |-> <<>>]
           ELSE IF value.t = "str"
           THEN [heap |-> h, val |-> PyNone, errors |-> <<Issue("int_parsing", <<>>)>>]
           ELSE [heap |-> h, val |-> PyNone, errors |-> <<Issue("int_type", <<>>)>>]
      [] type = "str" ->
           IF value.t = "str" THEN [heap |-> h, val |-> value, errors |-> <<>>]
           ELSE [heap |-> h, val |-> PyNone, errors |-> <<Issue("string_type", <<>>)>>]
      [] type = "bytes" ->
           IF value.t \in {"bytes", "str"}
           THEN [heap |-> h, val |-> PyBytes(value.s), errors |-> <<>>]
           ELSE [heap |-> h, val |-> PyNone, errors |-> <<Issue("bytes_type", <<>>)>>]
      [] type = "seq" ->
           IF value.t = "list"
           THEN [heap |-> Append(h, h[value.a]), val |-> PyList(Len(h) + 1), errors |-> <<>>]
           ELSE [heap |-> h, val |-> PyNone, errors |-> <<Issue("list_type", <<>>)>>]
      [] OTHER -> [heap |-> h, val |-> value, errors |-> <<>>]

RECURSIVE ValidateSubFields(_, _)
ValidateSubFields(subs, items) ==
    IF subs = <<>> THEN [items |-> <<>>, errors |-> <<>>]
    ELSE LET f == subs[1]
             rest == ValidateSubFields(Tail(subs), items)
             r == IF DictHas(items, f.alias)
                  THEN ValidateScalar(<<>>, f.type, DictGet(items, f.alias, PyNone))
                  ELSE IF f.required
                  THEN [heap |-> <<>>, val |-> PyNone, errors |-> <<Issue("missing", <<>>)>>]
                  ELSE [heap |-> <<>>, val |-> f.default, errors |-> <<>>]
         IN [items |-> IF r.errors = <<>> THEN << <<f.name, r.val>> >> \o rest.items
                       ELSE rest.items,
             errors |-> _regenerate_error_with_loc(r.errors, <<f.alias>>) \o rest.errors]

TypeAdapterValidate(h, type, value) ==
    IF type = "model"
    THEN IF value.t \in {"dict", "model"}
         THEN LET adapted(r) ==
                      [heap |-> h,
                       val |-> IF r.errors = <<>> THEN PyModel(r.items) ELSE PyNone,
                       errors |-> r.errors]
              IN adapted(ValidateSubFields(ModelSubFields, value.d))
         ELSE [heap |-> h, val |-> PyNone,
               errors |-> <<Issue("model_attributes_type", <<>>)>>]
    ELSE ValidateScalar(h, type, value)

\* a validator that uses up a list it is given: the list is empty afterwards
validate_consuming(h, field, value, loc) ==
    LET validated(r) ==
            IF r.errors = <<>>
            THEN [heap |-> IF value.t = "list" THEN [r.heap EXCEPT ![value.a] = <<>>]
                           ELSE r.heap,
                  val |-> r.val, errors |-> <<>>, isNone |-> TRUE]
            ELSE [heap |-> h, val |-> PyNone,
                  errors |-> _regenerate_error_with_loc(r.errors, loc), isNone |-> FALSE]
    IN validated(TypeAdapterValidate(h, field.type, value))

\* ModelField.validate: (value, None) or (None, issues prefixed with loc);
\* isNone tells the two apart
validate(h, field, value, loc) ==
    LET validated(r) ==
            IF r.errors = <<>>
            THEN [heap |-> r.heap, val |-> r.val, errors |-> <<>>, isNone |-> TRUE]
            ELSE [heap |-> h, val |-> PyNone,
                  errors |-> _regenerate_error_with_loc(r.errors, loc), isNone |-> FALSE]
    IN validated(TypeAdapterValidate(h, field.type, value))

\* a required field without a value reported as if it were optional
_validate_value_with_model_field_norequired(h, field, value, loc) ==
    IF value.t = "none"
    THEN LET copied(c) == [heap |-> c.heap, val |-> c.val, errors |-> <<>>]
         IN copied(deepcopy(h, field.default))
    ELSE LET checked(r) ==
                 IF ~r.isNone
                 THEN [heap |-> h, val |-> PyNone,
                       errors |-> _regenerate_error_with_loc(r.errors, <<>>)]
                 ELSE [heap |-> r.heap, val |-> r.val, errors |-> <<>>]
         IN checked(validate(h, field, value, loc))

\* the default handed out itself, not a copy of it
_validate_value_with_model_field_shared(h, field, value, loc) ==
    IF value.t = "none"
    THEN IF field.required
         THEN [heap |-> h, val |-> PyNone, errors |-> <<get_missing_field_error(loc)>>]
         ELSE [heap |-> h, val |-> field.default, errors |-> <<>>]
    ELSE LET checked(r) ==
                 IF ~r.isNone
                 THEN [heap |-> h, val |-> PyNone,
                       errors |-> _regenerate_error_with_loc(r.errors, <<>>)]
                 ELSE [heap |-> r.heap, val |-> r.val, errors |-> <<>>]
         IN checked(validate(h, field, value, loc))

\* the validator called for every value, None included
_validate_value_with_model_field_validated(h, field, value, loc) ==
    LET checked(r) ==
            IF ~r.isNone
            THEN [heap |-> h, val |-> PyNone,
                  errors |-> _regenerate_error_with_loc(r.errors, <<>>)]
            ELSE [heap |-> r.heap, val |-> r.val, errors |-> <<>>]
    IN checked(validate(h, field, value, loc))

_validate_value_with_model_field(h, field, value, loc) ==
    IF value.t = "none"
    THEN IF field.required
         THEN [heap |-> h, val |-> PyNone, errors |-> <<get_missing_field_error(loc)>>]
         ELSE LET copied(c) == [heap |-> c.heap, val |-> c.val, errors |-> <<>>]
              IN copied(deepcopy(h, field.default))
    ELSE LET checked(r) ==
                 IF ~r.isNone
                 THEN [heap |-> h, val |-> PyNone,
                       errors |-> _regenerate_error_with_loc(r.errors, <<>>)]
                 ELSE [heap |-> r.heap, val |-> r.val, errors |-> <<>>]
         IN checked(validate(h, field, value, loc))

\* values is [multi |-> BOOLEAN, list |-> the items]: an ImmutableMultiDict
\* (or Headers) when multi, a plain mapping otherwise.  Multidict values are
\* strings, wrapped here as Python values.
_get_multidict_value(h, field, values, alias) ==
    LET useList == is_sequence_field(field) /\ values.multi
        lst == getlist(values.list, alias)
        got == DictGet(values.list, alias, PyNone)
        absent == IF useList THEN lst = <<>>
                  ELSE got.t = "none" \/ (is_sequence_field(field) /\ got.t = "list" /\ h[got.a] = <<>>)
    IN IF absent
       THEN IF field.required
            THEN [heap |-> h, val |-> PyNone]
            ELSE deepcopy(h, field.default)
       ELSE IF useList
            THEN [heap |-> Append(h, [k \in 1..Len(lst) |-> lst[k].s]), val |-> PyList(Len(h) + 1)]
            ELSE [heap |-> h, val |-> got]

\* ------------------------------------------------- binding the parameters
\* query and header parameters, one field after the other
RECURSIVE ParamsLoop(_, _, _, _)
ParamsLoop(acc, fields, received_params, k) ==
    IF k > Len(fields) THEN acc
    ELSE LET field == fields[k]
             loc == <<field.in_, field.alias>>
             checked(g) == _validate_value_with_model_field(g.heap, field, g.val, loc)
             bound(r) == [heap |-> r.heap,
                          values |-> IF r.errors = <<>>
                                     THEN DictSet(acc.values, field.name, r.val)
                                     ELSE acc.values,
                          errors |-> acc.errors \o r.errors]
         IN ParamsLoop(bound(checked(_get_multidict_value(acc.heap, field, received_params,
                                                          field.alias))),
                       fields, received_params, k + 1)

\* nested mode: one value per sub-field, taken from the top-level keys
RECURSIVE ExtractSubFields(_, _, _)
ExtractSubFields(acc, subs, received) ==
    IF subs = <<>> THEN acc
    ELSE LET taken(g) ==
                 [heap |-> g.heap,
                  items |-> IF g.val.t # "none"
                            THEN DictSet(acc.items, subs[1].name, g.val)
                            ELSE acc.items,
                  keys |-> acc.keys \cup {subs[1].alias, subs[1].name}]
         IN ExtractSubFields(
                taken(_get_multidict_value(acc.heap, subs[1], received, subs[1].alias)),
                Tail(subs), received)

\* the keys no field claims left out of the assembled value
Leftover_drop(items, received_items, keys) == items

RECURSIVE Leftover(_, _, _)
Leftover(items, received_items, keys) ==
    IF received_items = <<>> THEN items
    ELSE Leftover(IF received_items[1][1] \in keys THEN items
                  ELSE DictSet(items, received_items[1][1], received_items[1][2]),
                  Tail(received_items), keys)

request_params_to_args(h, fields, received_params) ==
    IF fields = <<>> THEN [heap |-> h, values |-> <<>>, errors |-> <<>>]
    ELSE IF Len(fields) = 1 /\ fields[1].type = "model"
    THEN LET params_to_process(e) ==
                 Leftover(e.items, DictItems(received_params.list), e.keys)
             checked(e) == _validate_value_with_model_field(
                               e.heap, fields[1], PyDict(params_to_process(e)),
                               <<fields[1].in_>>)
             bound(r) == [heap |-> r.heap, values |-> << <<fields[1].name, r.val>> >>,
                          errors |-> r.errors]
         IN bound(checked(ExtractSubFields([heap |-> h, items |-> <<>>, keys |-> {}],
                                           ModelSubFields, received_params)))
    ELSE ParamsLoop([heap |-> h, values |-> <<>>, errors |-> <<>>], fields, received_params, 1)

\* the form items as a plain dict: the declared fields first (an uploaded
\* file bound to a bytes field is read), then every key not yet taken
RECURSIVE FormLoop(_, _, _, _)
FormLoop(acc, body_fields, received_body, k) ==
    IF k > Len(body_fields) THEN acc
    ELSE LET field == body_fields[k]
             value(g) == IF body_fields[1].in_ = "file" /\ field.type = "bytes"
                            /\ g.val.t = "upload"
                         THEN PyBytes("data")
                         ELSE g.val
             taken(g) == [heap |-> g.heap,
                          values |-> IF g.val.t # "none"
                                     THEN DictSet(acc.values, field.alias, value(g))
                                     ELSE acc.values]
         IN FormLoop(taken(_get_multidict_value(acc.heap, field,
                                                [multi |-> TRUE, list |-> received_body.d],
                                                field.alias)),
                     body_fields, received_body, k + 1)

_extract_form_body(h, body_fields, received_body) ==
    LET keys(r) == {r.values[k][1] : k \in 1..Len(r.values)}
        extracted(r) == [heap |-> r.heap,
                         values |-> Leftover(r.values, DictItems(received_body.d), keys(r))]
    IN extracted(FormLoop([heap |-> h, values |-> <<>>], body_fields, received_body, 1))

RECURSIVE BodyLoop(_, _, _, _)
BodyLoop(acc, body_fields, body_to_process, k) ==
    IF k > Len(body_fields) THEN acc
    ELSE LET field == body_fields[k]
             loc == <<"body", field.alias>>
             hasGet == body_to_process.t = "dict"
             value == IF body_to_process.t = "none" THEN PyNone
                      ELSE DictGet(body_to_process.d, field.alias, PyNone)
             bound(r) == [heap |-> r.heap,
                          values |-> IF r.errors = <<>>
                                     THEN DictSet(acc.values, field.name, r.val)
                                     ELSE acc.values,
                          errors |-> acc.errors \o r.errors]
         IN BodyLoop(IF body_to_process.t # "none" /\ ~hasGet
                     THEN [acc EXCEPT !.errors = @ \o <<get_missing_field_error(loc)>>]
                     ELSE bound(_validate_value_with_model_field(acc.heap, field, value, loc)),
                     body_fields, body_to_process, k + 1)

\* request_body_to_args that reads every field under its alias, a single
\* field that is not embedded included
request_body_to_args_perfield(h, body_fields, received_body, embed_body_fields) ==
    LET body_to_process(form) == IF received_body.t = "form" THEN PyDict(form.values)
                                 ELSE received_body
        validated(form) ==
            BodyLoop([heap |-> form.heap, values |-> <<>>, errors |-> <<>>],
                     body_fields, body_to_process(form), 1)
    IN validated(IF received_body.t = "form"
                 THEN _extract_form_body(h, body_fields, received_body)
                 ELSE [heap |-> h, values |-> <<>>])

request_body_to_args(h, body_fields, received_body, embed_body_fields) ==
    LET single_not_embedded_field == Len(body_fields) = 1 /\ ~embed_body_fields
        first_field == body_fields[1]
        fields_to_extract == IF single_not_embedded_field /\ first_field.type = "model"
                             THEN ModelSubFields ELSE body_fields
        body_to_process(form) == IF received_body.t = "form" THEN PyDict(form.values)
                                 ELSE received_body
        bound(r) == [heap |-> r.heap, values |-> << <<first_field.name, r.val>> >>,
                     errors |-> r.errors]
        validated(form) ==
            IF single_not_embedded_field
            THEN bound(_validate_value_with_model_field(form.heap, first_field,
                                                        body_to_process(form), <<"body">>))
            ELSE BodyLoop([heap |-> form.heap, values |-> <<>>, errors |-> <<>>],
                          body_fields, body_to_process(form), 1)
    IN validated(IF received_body.t = "form"
                 THEN _extract_form_body(h, fields_to_extract, received_body)
                 ELSE [heap |-> h, values |-> <<>>])

\* ------------------------------------------------------------- responses
Body(fmt, key, str, issues, val) ==
    [fmt |-> fmt, key |-> key, str |-> str, issues |-> issues, val |-> val]
EmptyBody == Body("empty", "", "", <<>>, PyNone)
\* json.dumps of {key: a string} and of {key: a list of issues}
JsonObjectStr(key, str) == Body("json_object_str", key, str, <<>>, PyNone)
JsonObjectIssues(key, issues) == Body("json_object_list", key, "", issues, PyNone)
JsonValue(val) == Body("json_value", "", "", <<>>, val)
TextBody(str) == Body("text", "", str, <<>>, PyNone)

Response(obj, cls, status, headers, body) ==
    [obj |-> obj, cls |-> cls, status |-> status, headers |-> headers, body |-> body]

NoResponse == Response("none", "", 0, <<>>, EmptyBody)

\* the response object parse_and_validate_request allocates when none is given
WerkzeugResponse_default ==
    Response("envelope", "Response", 200,
             << <<"Content-Type", "text/plain; charset=utf-8">> >>, EmptyBody)

\* JSONResponse(content, status_code): the content JSON-encoded
JSONResponse(content, status_code) ==
    Response("built", "JSONResponse", status_code,
             << <<"Content-Type", "application/json">> >>,
             IF content.t = "none" THEN EmptyBody ELSE JsonValue(content))

\* ------------------------------------------------------------ exceptions
Exc(kind, status_code, detail, errors, body) ==
    [kind |-> kind, status_code |-> status_code, detail |-> detail,
     errors |-> errors, body |-> body]
NoExc == Exc("none", 0, "", <<>>, PyNone)
HTTPException(status_code, detail) == Exc("HTTPException", status_code, detail, <<>>, PyNone)
RequestValidationError(errors, body) == Exc("RequestValidationError", 0, "", errors, body)
ResponseValidationError(errors, body) == Exc("ResponseValidationError", 0, "", errors, body)
OtherError(kind) == Exc(kind, 0, "", <<>>, PyNone)

\* the base classes of each exception class
Bases(kind) ==
    CASE kind = "HTTPException" -> {"HTTPException", "Exception"}
      [] kind = "RequestValidationError" ->
           {"RequestValidationError", "ValidationException", "Exception"}
      [] kind = "ResponseValidationError" ->
           {"ResponseValidationError", "ValidationException", "Exception"}
      [] kind = "FrappeAPIError" -> {"FrappeAPIError", "Exception"}
      [] kind = "KeyError" -> {"KeyError", "LookupError", "Exception"}
      [] OTHER -> {kind, "Exception"}

isinstance(exc, exc_type) == exc_type \in Bases(exc.kind)

\* ----------------------------------------------------- exception handlers
request_validation_exception_handler(exc) ==
    Response("default_handler", "Response", 422,
             << <<"Content-Type", "application/json">> >>,
             JsonObjectIssues("detail", exc.errors))

\* the dict {"detail": ...} is handed to the response as its iterable of
\* body chunks: iterating it yields its keys
http_exception_handler(exc) ==
    IF ~is_body_allowed_for_status_code(exc.status_code)
    THEN Response("default_handler", "Response", exc.status_code,
                  << <<"Content-Type", "text/plain; charset=utf-8">> >>, EmptyBody)
    ELSE Response("default_handler", "Response", exc.status_code,
                  << <<"Content-Type", "text/plain; charset=utf-8">> >>,
                  TextBody("detail"))

response_validation_exception_handler(exc) ==
    Response("default_handler", "Response", 500,
             << <<"Content-Type", "application/json">> >>, EmptyBody)

\* a handler the application registered: its response names it
CustomHandler(handler, exc) ==
    Response("custom", "Response", 418, <<>>, TextBody(handler))

\* ------------------------------------------------ response serialization
\* serialize_response(field, response_content): the encoded content, or the
\* issues of a ResponseValidationError
serialize_response(h, response_type, response_content) ==
    IF response_type # "none"
    THEN LET r == validate(h, [type |-> response_type], response_content, <<"response">>)
         IN [content |-> r.val, errors |-> r.errors]
    ELSE [content |-> response_content, errors |-> <<>>]

\* ---------------------------------------------------------------- routes
\* the security scopes of a plan: None, or a list of scope names
Scopes(isNone, items) == [isNone |-> isNone, items |-> items]

NoScopes == Scopes(TRUE, <<>>)

\* the scope names a plan may carry, in the order Python's str comparison gives
ScopeOrder == <<"admin", "read", "write">>

\* set(xs): the distinct items of a list
SetOf(xs) == {xs[k] : k \in 1..Len(xs)}

\* tuple(sorted(S)): the items of a set of scope names in ascending order
Sorted(S) == SelectSeq(ScopeOrder, LAMBDA x : x \in S)

\* __post_init__: cache_key as first written, the scopes in the order given
cache_key_unsorted(call, security_scopes) ==
    [call |-> call, scopes |-> IF security_scopes.isNone THEN <<>> ELSE security_scopes.items]

\* __post_init__: (call, tuple(sorted(set(security_scopes or []))))
cache_key(call, security_scopes) ==
    [call |-> call,
     scopes |-> Sorted(SetOf(IF security_scopes.isNone THEN <<>> ELSE security_scopes.items))]

\* the binding plan of a route: one list of fields for each location
Dependant(query_params, header_params, cookie_params, body_params, call, security_scopes) ==
    [path_params |-> <<>>,
     query_params |-> query_params, header_params |-> header_params,
     cookie_params |-> cookie_params, body_params |-> body_params,
     call |-> call, security_scopes |-> security_scopes,
     cache_key |-> cache_key(call, security_scopes)]

\* the binding plans of the routes under study
Plans ==
    << Dependant(<< Field("n", "n", "query", TRUE, PyNone, "int"),
                    Field("tags", "tags", "query", FALSE, PyList(DefaultAddr), "seq") >>,
                 << Field("x_tag", "x-tag", "header", TRUE, PyNone, "str") >>,
                 <<>>,
                 <<>>, "endpoint", NoScopes),
       Dependant(<< Field("limit", "limit", "query", FALSE, PyInt(5), "int") >>,
                 <<>>,
                 <<>>,
                 << Field("a", "a", "body", TRUE, PyNone, "int"),
                    Field("opts", "opts", "body", FALSE, PyList(DefaultAddr), "seq") >>,
                 "endpoint", NoScopes),
       Dependant(<<>>,
                 << Field("x_tag", "x-tag", "header", FALSE, PyNone, "seq") >>,
                 <<>>,
                 << Field("item", "item", "body", TRUE, PyNone, "model") >>,
                 "endpoint", NoScopes),
       Dependant(<<>>,
                 <<>>,
                 <<>>,
                 << Field("upload", "upload", "file", TRUE, PyNone, "bytes") >>,
                 "endpoint", NoScopes),
       Dependant(<< Field("item", "item", "query", TRUE, PyNone, "model") >>,
                 <<>>,
                 <<>>,
                 <<>>, "endpoint", NoScopes),
       Dependant(<<>>,
                 <<>>,
                 << Field("session", "session", "cookie", TRUE, PyNone, "str") >>,
                 <<>>, "endpoint", NoScopes) >>

\* _should_embed_body_fields: several body parameters are embedded, and so is
\* a single form or file parameter that is not a structured model
_should_embed_body_fields(body_params) ==
    /\ body_params # <<>>
    /\ \/ Len(body_params) > 1
       \/ body_params[1].in_ \in {"form", "file"} /\ body_params[1].type # "model"

\* the handler table of a route; isNone when the router was given none
Table(isNone, entries) == [isNone |-> isNone, entries |-> entries]

Tables ==
    { Table(TRUE, <<>>),
      Table(FALSE, <<>>),
      Table(FALSE, << <<"HTTPException", "h1">> >>),
      Table(FALSE, << <<"RequestValidationError", "h1">>, <<"ResponseValidationError", "h2">> >>),
      Table(FALSE, << <<"LookupError", "h1">>, <<"KeyError", "h2">> >>),
      Table(FALSE, << <<"KeyError", "h1">>, <<"Exception", "h2">> >>) }

\* APIRoute.__init__: the fields of a route that dispatch reads
APIRoute(plan, status_code, response_type, exception_handlers) ==
    [dependant |-> Plans[plan],
     body_field |-> Plans[plan].body_params # <<>>,
     is_body_form |-> Plans[plan].body_params # <<>>
                      /\ Plans[plan].body_params[1].in_ \in {"form", "file"},
     _embed_body_fields |-> _should_embed_body_fields(Plans[plan].body_params),
     status_code |-> status_code,
     response_type |-> response_type,
     exception_handlers |-> exception_handlers]

Routes ==
    { APIRoute(p, sc[1], sc[2], t) :
        p \in 1..Len(Plans), sc \in {<<0, "none">>, <<201, "int">>, <<204, "none">>},
        t \in Tables }

\* the sequences over S of length at most n
RECURSIVE SeqsUpTo(_, _)
SeqsUpTo(S, n) ==
    IF n = 0 THEN {<<>>}
    ELSE LET shorter == SeqsUpTo(S, n - 1)
         IN shorter \cup {Append(q, x) : q \in {r \in shorter : Len(r) = n - 1}, x \in S}

\* ---------------------------------------------------------- registration
\* add_param_to_fields without its assertion: whatever is neither a query nor
\* a header parameter is appended to the cookie parameters
add_param_to_fields_noassert(field, dependant) ==
    IF field.in_ = "query"
    THEN [dependant |-> [dependant EXCEPT !.query_params = Append(@, field)], raised |-> FALSE]
    ELSE IF field.in_ = "header"
    THEN [dependant |-> [dependant EXCEPT !.header_params = Append(@, field)], raised |-> FALSE]
    ELSE [dependant |-> [dependant EXCEPT !.cookie_params = Append(@, field)], raised |-> FALSE]

\* add_param_to_fields: the field is appended to the list of its location; a
\* location that is not query, header or cookie fails the assertion and
\* nothing is appended
add_param_to_fields(field, dependant) ==
    IF field.in_ = "query"
    THEN [dependant |-> [dependant EXCEPT !.query_params = Append(@, field)], raised |-> FALSE]
    ELSE IF field.in_ = "header"
    THEN [dependant |-> [dependant EXCEPT !.header_params = Append(@, field)], raised |-> FALSE]
    ELSE IF field.in_ = "cookie"
    THEN [dependant |-> [dependant EXCEPT !.cookie_params = Append(@, field)], raised |-> FALSE]
    ELSE [dependant |-> dependant, raised |-> TRUE]

\* ParamTypes, and "" for a field_info that has no in_ attribute (getattr
\* gives None)
ParamLocations == {"query", "header", "path", "cookie", ""}

\* the k-th non-body parameter a route may declare
RegistrationFields(k) ==
    {Field(ToString(k), ToString(k), in_, TRUE, PyNone, "str") : in_ \in ParamLocations}

\* the callables and the security scopes a plan may be built for
PlanCalls == {"f", "g"}
ScopeLists == {NoScopes} \cup {Scopes(FALSE, q) : q \in SeqsUpTo({"read", "admin"}, MaxScopes)}

\* a registration under way: the plan, a second plan built on its own, the
\* fields handed to add_param_to_fields so far and those it rejected
Registration(dependant, twin, fields, rejected) ==
    [dependant |-> dependant, twin |-> twin, fields |-> fields, rejected |-> rejected]

NoRegistration ==
    Registration(Dependant(<<>>, <<>>, <<>>, <<>>, "", NoScopes),
                 Dependant(<<>>, <<>>, <<>>, <<>>, "", NoScopes), <<>>, <<>>)

\* ---------------------------------------------------------- multidicts
\* the strings of the keys and values under study, in Python's str order
StrOrder == <<"", "1", "2", "a", "b">>

StrRank(x) == CHOOSE k \in 1..Len(StrOrder) : StrOrder[k] = x

\* (k1, v1) < (k2, v2) on tuples of strings
PairLess(p, q) ==
    \/ StrRank(p[1]) < StrRank(q[1])
    \/ p[1] = q[1] /\ StrRank(p[2]) < StrRank(q[2])

RECURSIVE InsertSorted(_, _)
InsertSorted(sorted_items, p) ==
    IF sorted_items = <<>> THEN <<p>>
    ELSE IF PairLess(p, sorted_items[1]) THEN <<p>> \o sorted_items
    ELSE <<sorted_items[1]>> \o InsertSorted(Tail(sorted_items), p)

\* sorted(items) on a list of pairs of strings
RECURSIVE sorted(_)
sorted(items) ==
    IF items = <<>> THEN <<>>
    ELSE InsertSorted(sorted(SubSeq(items, 1, Len(items) - 1)), items[Len(items)])

\* a multidict object: its class, the dict of its keys and the list of its items
MultiDict(cls, dict, list) == [cls |-> cls, _dict |-> dict, _list |-> list]

\* ImmutableMultiDict.__init__ on a list of pairs
ImmutableMultiDict(items) == MultiDict("ImmutableMultiDict", DictItems(items), items)

\* a query string is its segments between "&": <<name, "=", value>>, or
\* <<name, "", "">> for a segment without "=", or <<"", "", "">> for an empty one
Segments == { <<"a", "=", "1">>, <<"a", "=", "">>, <<"a", "", "">>, <<"b", "=", "2">>,
              <<"", "", "">> }

\* parse_qsl that keeps no blank value
RECURSIVE parse_qsl_noblank(_)
parse_qsl_noblank(segments) ==
    IF segments = <<>> THEN <<>>
    ELSE (IF segments[1][3] = "" THEN <<>> ELSE << <<segments[1][1], segments[1][3]>> >>)
         \o parse_qsl_noblank(Tail(segments))

\* parse_qsl(value, keep_blank_values=True): an empty segment is skipped, a
\* segment without "=" or with nothing after it gives the empty string
RECURSIVE parse_qsl(_)
parse_qsl(segments) ==
    IF segments = <<>> THEN <<>>
    ELSE (IF segments[1] = <<"", "", "">> THEN <<>>
          ELSE << <<segments[1][1], segments[1][3]>> >>)
         \o parse_qsl(Tail(segments))

\* str(x) of a str is that str
str(x) == x

StrItems(items) == [k \in 1..Len(items) |-> <<str(items[k][1]), str(items[k][2])>>]

\* what a multidict is built from: the class asked for, and a query string
\* or a list of pairs
Source(cls, isStr, data) == [cls |-> cls, isStr |-> isStr, data |-> data]

\* QueryParams.__init__
QueryParams(value) ==
    LET super(md) == MultiDict("QueryParams", StrItems(md._dict), StrItems(md._list))
    IN super(ImmutableMultiDict(IF value.isStr THEN parse_qsl(value.data) ELSE value.data))

\* the constructor of the class the source asks for
Construct(value) ==
    IF value.cls = "QueryParams" THEN QueryParams(value) ELSE ImmutableMultiDict(value.data)

\* isinstance(other, self.__class__) between the two classes
IsInstanceOf(other, cls) == other.cls = cls \/ cls = "ImmutableMultiDict"

\* __eq__ that looks at the class only
multidict_eq_anyitems(self, other) == IsInstanceOf(other, self.cls)

\* ImmutableMultiDict.__eq__
multidict_eq(self, other) ==
    /\ IsInstanceOf(other, self.cls)
    /\ sorted(self._list) = sorted(other._list)

\* ImmutableMultiDict.__contains__
multidict_contains(self, key) == DictHas(self._dict, key)

\* ImmutableMultiDict.__getitem__, for a key the dict holds
multidict_getitem(self, key) == DictGet(self._dict, key, "")

\* ImmutableMultiDict.getlist
multidict_getlist(self, key) == getlist(self._list, key)

MultiPairs == {<<k, v>> : k \in {"a", "b"}, v \in {"", "1"}}

Sources ==
    {Source(c, FALSE, q) : c \in {"ImmutableMultiDict", "QueryParams"},
                           q \in SeqsUpTo(MultiPairs, MaxPairs)}
    \cup {Source("QueryParams", TRUE, q) : q \in SeqsUpTo(Segments, MaxPairs)}

\* the sources handed to the constructors and the objects built from them
MultiDicts(args, built) == [args |-> args, built |-> built]

NoMultiDicts == MultiDicts(<<>>, <<>>)

\* -------------------------------------------------------------- requests
QueryValues == {"5", "x"}
HeaderValues == {"a", "b"}
BodyValues == {PyNone, PyInt(5), PyStr("x")}
CookieValues == {"s1"}

\* the parsed JSON documents a request may carry
JsonDocs ==
    {PyInt(5)} \cup
    {PyDict(items) : items \in
        {DictItems(q) : q \in SeqsUpTo({<<k, v>> : k \in {"a", "opts", "c"}, v \in BodyValues},
                                        MaxItems)}}

\* an uploaded file object
FileObj(has_read, content_length, read_raises) ==
    [has_read |-> has_read, content_length |-> content_length, read_raises |-> read_raises]

MAX_IN_MEMORY_FILE_SIZE == 1048576

FileObjs ==
    {FileObj(hr, cl, rr) : hr \in BOOLEAN,
                           cl \in {-1, 0, 10, MAX_IN_MEMORY_FILE_SIZE + 1},
                           rr \in BOOLEAN}

Request(query, headers, cookies, data, content_type, form, files) ==
    [query |-> query, headers |-> headers, cookies |-> cookies, data |-> data,
     content_type |-> content_type, form |-> form, files |-> files]

NoRequest == Request(<<>>, <<>>, <<>>, PyNone, "", <<>>, <<>>)

\* the requests a route may receive: only the parts its plan reads vary
RequestsFor(r) ==
    { Request(q, h, c, d[1], d[2], <<>>, f) :
        q \in IF r.dependant.query_params = <<>> THEN {<<>>}
              ELSE SeqsUpTo({<<k, PyStr(v)>> :
                               k \in IF r.dependant.query_params[1].type = "model"
                                     THEN {"a", "b", "c"}
                                     ELSE {fl.alias : fl \in {r.dependant.query_params[j] :
                                                     j \in 1..Len(r.dependant.query_params)}},
                               v \in QueryValues}, MaxItems),
        h \in IF r.dependant.header_params = <<>> THEN {<<>>}
              ELSE SeqsUpTo({<<"x-tag", PyStr(v)>> : v \in HeaderValues}, MaxItems),
        c \in IF r.dependant.cookie_params = <<>> THEN {<<>>}
              ELSE {<<>>} \cup {<< <<"session", PyStr(v)>> >> : v \in CookieValues},
        d \in IF r.body_field /\ ~r.is_body_form
              THEN {<<PyNone, "">>} \cup
                   {<<doc, "application/json">> : doc \in JsonDocs} \cup
                   {<<PyBytes("{bad"), "application/json">>,
                    <<PyBytes("raw"), "text/plain">>, <<PyBytes("{}"), "">>}
              ELSE {<<PyNone, "">>},
        f \in IF r.is_body_form
              THEN SeqsUpTo({<<k, fo>> : k \in {"upload", "doc"}, fo \in FileObjs}, MaxFiles)
              ELSE {<<>>} }

\* ------------------------------------------- what a request leaves out
FieldsOf(fields) == {fields[k] : k \in 1..Len(fields)}

\* whether the body, as extracted, holds no entry for the alias
BodyLacks(bd, alias) == bd.t \notin {"dict", "form"} \/ ~DictHas(bd.d, alias)

\* the declared parameters of a route that find no value in their source
AbsentFields(rt, req, bd) ==
    {f \in FieldsOf(rt.dependant.query_params) :
        f.type # "model" /\ ~DictHas(req.query, f.alias)}
    \cup {f \in FieldsOf(rt.dependant.header_params) : ~DictHas(req.headers, f.alias)}
    \cup {f \in FieldsOf(rt.dependant.body_params) :
            IF rt._embed_body_fields THEN BodyLacks(bd, f.alias) ELSE bd.t = "none"}

AbsentOptional(rt, req, bd) == {f \in AbsentFields(rt, req, bd) : ~f.required}

\* the location path of a declared parameter
LocOf(rt, f) ==
    IF f.in_ \in {"query", "header"} THEN <<f.in_, f.alias>>
    ELSE IF rt._embed_body_fields THEN <<"body", f.alias>>
    ELSE <<"body">>

\* the location paths of the required fields the request leaves out, the
\* required sub-fields of a structured body included
AbsentRequiredLocs(rt, req, bd) ==
    {LocOf(rt, f) : f \in {g \in AbsentFields(rt, req, bd) : g.required}}
    \cup {<<"body", sf.alias>> :
            sf \in {g \in FieldsOf(ModelSubFields) :
                      /\ g.required
                      /\ rt.dependant.body_params # <<>>
                      /\ ~rt._embed_body_fields
                      /\ rt.dependant.body_params[1].type = "model"
                      /\ bd.t = "dict"
                      /\ ~DictHas(bd.d, g.alias)}}
    \cup {<<"query", sf.alias>> :
            sf \in {g \in FieldsOf(ModelSubFields) :
                      /\ g.required
                      /\ rt.dependant.query_params # <<>>
                      /\ rt.dependant.query_params[1].type = "model"
                      /\ ~DictHas(req.query, g.alias)}}

\* ------------------------------------------------------------------ state
VARIABLES
    route,          \* the registered route
    heap,           \* the mutable list objects, by address
    pc,             \* where handle_request stands
    request,        \* the request being served
    body,           \* the extracted body
    solved_result,  \* what parse_and_validate_request returned
    raw_response,   \* what the endpoint returned: a value or a response object
    exc,            \* the exception raised inside the dispatch block
    outcome,        \* what handle_request returned or raised
    closed,         \* the uploaded file objects closed so far
    file_stack,     \* the file objects whose close the exit stack holds
    trace,          \* the stages run and the handlers invoked for this request
    mutated_default, \* whether an endpoint has mutated a list bound from a default
    parked,         \* the call of another thread on the same route, while it is not running
    calls,          \* a field validator called on its own: its arguments and results
    registering,    \* the plan a route registration is building, parameter by parameter
    multidict       \* the multi-valued mappings built from a list of pairs or a query string

vars == <<route, heap, pc, request, body, solved_result, raw_response, exc,
          outcome, closed, file_stack, trace, mutated_default, parked, calls,
          registering, multidict>>

SolvedDependency(values, errors, response) ==
    [values |-> values, errors |-> errors, response |-> response]

NoSolved == SolvedDependency(<<>>, <<>>, NoResponse)

Outcome(kind, response, e) == [kind |-> kind, response |-> response, exc |-> e]

NoOutcome == Outcome("none", NoResponse, NoExc)

Return(isResponse, val, resp) == [isResponse |-> isResponse, val |-> val, resp |-> resp]

NoReturn == Return(FALSE, PyNone, NoResponse)

\* the locals of one handle_request call
Call(p, req, bd, solved, raw, e, out, cl, stack, tr) ==
    [pc |-> p, request |-> req, body |-> bd, solved_result |-> solved,
     raw_response |-> raw, exc |-> e, outcome |-> out,
     closed |-> cl, file_stack |-> stack, trace |-> tr]

\* no other thread serves the route
NoCall == Call("none", NoRequest, PyNone, NoSolved, NoReturn, NoExc, NoOutcome, {}, {}, <<>>)

\* no validator is called on its own
NoCalls == [field |-> Field("", "", "", FALSE, PyNone, ""), value |-> PyNone, loc |-> <<>>,
            values |-> <<>>, results |-> <<>>, bound |-> <<>>]

Init ==
    /\ route \in Routes
    /\ heap = <<DeclaredDefault>>
    /\ pc = "idle"
    /\ request = NoRequest
    /\ body = PyNone
    /\ solved_result = NoSolved
    /\ raw_response = NoReturn
    /\ exc = NoExc
    /\ outcome = NoOutcome
    /\ closed = {}
    /\ file_stack = {}
    /\ trace = <<>>
    /\ mutated_default = FALSE
    /\ parked = NoCall
    /\ calls = NoCalls
    /\ registering = NoRegistration
    /\ multidict = NoMultiDicts

\* the transport hands a request to the route's wrapper
Receive ==
    /\ pc = "idle"
    /\ \E req \in RequestsFor(route) : request' = req
    /\ pc' = "extract"
    /\ UNCHANGED <<route, heap, body, solved_result, raw_response, exc, outcome,
                   closed, file_stack, trace, mutated_default>>
    /\ UNCHANGED <<parked, calls, registering, multidict>>

\* ------------------------------------------------------- body extraction
\* request.get_json(silent=True): the document of a well-formed JSON body
\* sent with a JSON content type, None otherwise
get_json_silent(req) ==
    IF req.content_type = "application/json" /\ req.data.t \notin {"bytes", "none"}
    THEN req.data ELSE PyNone

\* the non-form branch: the JSON document, or the bytes when JSON was not tried
ExtractJsonBody(req) ==
    IF req.data.t = "none" THEN PyNone
    ELSE IF req.content_type = "" THEN get_json_silent(req)
    ELSE IF req.content_type = "application/json" THEN get_json_silent(req)
    ELSE IF req.data.t = "bytes" THEN req.data ELSE PyBytes("json-text")

\* the form branch, file after file: the items collected, the files closed
\* and registered on the exit stack, and the exception that ended the loop
RECURSIVE FilesLoop(_, _, _)
FilesLoop(acc, files, k) ==
    IF k > Len(files) \/ acc.raised.kind # "none" THEN acc
    ELSE LET field_name == files[k][1]
             fileobj == files[k][2]
         IN IF ~fileobj.has_read
            THEN [acc EXCEPT !.raised = HTTPException(400, "Cannot process the uploaded file")]
            ELSE IF fileobj.content_length > 0
                    /\ fileobj.content_length <= MAX_IN_MEMORY_FILE_SIZE
            THEN IF fileobj.read_raises
                 THEN [acc EXCEPT !.raised = OtherError("OSError")]
                 ELSE FilesLoop([acc EXCEPT !.items = Append(@, <<field_name, PyBytes("data")>>),
                                            !.closed = @ \cup {k}],
                                files, k + 1)
            ELSE FilesLoop([acc EXCEPT !.items = Append(@, <<field_name, PyUpload(k)>>),
                                       !.stack = @ \cup {k}],
                           files, k + 1)

\* the clause that re-raises an HTTPException left out: it is caught as any
\* other exception
ExtractionRaises_noreraise(e) == OtherError("TypeError")

\* lines 604-623: what leaves the extraction block for an exception raised
\* in it.  HTTPException takes status_code, not status: building the
\* "error parsing the body" exception fails with a TypeError.
ExtractionRaises(e) ==
    IF e.kind = "HTTPException" THEN e
    ELSE OtherError("TypeError")

ExtractBody ==
    /\ pc = "extract"
    /\ LET fl == FilesLoop([items |-> MultiDictItems(request.form), closed |-> {},
                            stack |-> {}, raised |-> NoExc],
                           MultiDictItems(request.files), 1)
       IN IF route.body_field /\ route.is_body_form
          THEN IF fl.raised.kind = "none"
               THEN /\ body' = [t |-> "form", i |-> 0, s |-> "", a |-> 0, d |-> fl.items]
                    /\ closed' = closed \cup fl.closed
                    /\ file_stack' = fl.stack
                    /\ pc' = "validate"
                    /\ trace' = Append(trace, "extract")
                    /\ UNCHANGED outcome
               ELSE \* the exception leaves handle_request; the exit stack unwinds
                    /\ outcome' = Outcome("raised", NoResponse, ExtractionRaises(fl.raised))
                    /\ closed' = closed \cup fl.closed \cup fl.stack
                    /\ file_stack' = {}
                    /\ pc' = "done"
                    /\ trace' = Append(trace, "extract")
                    /\ UNCHANGED body
          ELSE /\ body' = IF route.body_field THEN ExtractJsonBody(request) ELSE PyNone
               /\ pc' = "validate"
               /\ trace' = Append(trace, "extract")
               /\ UNCHANGED <<outcome, closed, file_stack>>
    /\ UNCHANGED <<route, heap, request, solved_result, raw_response, exc, mutated_default>>
    /\ UNCHANGED <<parked, calls, registering, multidict>>

\* ------------------------------------------- parse_and_validate_request
\* lines 342-347: the values of a repeated header joined into one value
RECURSIVE JoinValues(_)
JoinValues(vals) ==
    IF Len(vals) = 1 THEN vals[1].s
    ELSE vals[1].s \o ", " \o JoinValues(Tail(vals))

RECURSIVE HeaderKeys(_)
HeaderKeys(list) ==
    IF list = <<>> THEN <<>>
    ELSE LET init == HeaderKeys(SubSeq(list, 1, Len(list) - 1))
         IN IF \E k \in 1..Len(init) : init[k] = list[Len(list)][1] THEN init
            ELSE Append(init, list[Len(list)][1])

combined_headers(headers) ==
    LET keys == HeaderKeys(headers)
    IN [k \in 1..Len(keys) |-> <<keys[k], PyStr(JoinValues(getlist(headers, keys[k])))>>]

\* the header issues left out of the aggregate
parse_and_validate_request_noheader(h, req, dependant, received_body, embed_body_fields) ==
    LET request_query_params == [multi |-> TRUE, list |-> req.query]
        request_headers == [multi |-> TRUE, list |-> combined_headers(req.headers)]
        solved(b, q, hd) ==
            [heap |-> hd.heap,
             solved |-> SolvedDependency(
                            DictUpdate(DictUpdate(DictUpdate(<<>>, b.values), q.values),
                                       hd.values),
                            b.errors \o q.errors,
                            WerkzeugResponse_default)]
        headers(b, q) ==
            solved(b, q, request_params_to_args(q.heap, dependant.header_params,
                                                request_headers))
        query(b) ==
            headers(b, request_params_to_args(b.heap, dependant.query_params,
                                              request_query_params))
    IN query(IF dependant.body_params # <<>>
             THEN request_body_to_args(h, dependant.body_params, received_body,
                                       embed_body_fields)
             ELSE [heap |-> h, values |-> <<>>, errors |-> <<>>])

parse_and_validate_request(h, req, dependant, received_body, embed_body_fields) ==
    LET request_query_params == [multi |-> TRUE, list |-> req.query]
        request_headers == [multi |-> TRUE, list |-> combined_headers(req.headers)]
        solved(b, q, hd) ==
            [heap |-> hd.heap,
             solved |-> SolvedDependency(
                            DictUpdate(DictUpdate(DictUpdate(<<>>, b.values), q.values),
                                       hd.values),
                            b.errors \o q.errors \o hd.errors,
                            WerkzeugResponse_default)]
        headers(b, q) ==
            solved(b, q, request_params_to_args(q.heap, dependant.header_params,
                                                request_headers))
        query(b) ==
            headers(b, request_params_to_args(b.heap, dependant.query_params,
                                              request_query_params))
    IN query(IF dependant.body_params # <<>>
             THEN request_body_to_args(h, dependant.body_params, received_body,
                                       embed_body_fields)
             ELSE [heap |-> h, values |-> <<>>, errors |-> <<>>])

\* validation after which the endpoint is invoked whatever the issues
ParseAndValidate_proceed ==
    /\ pc = "validate"
    /\ \E r \in {parse_and_validate_request(heap, request, route.dependant, body,
                                            route._embed_body_fields)} :
          /\ heap' = r.heap
          /\ solved_result' = r.solved
    /\ pc' = "invoke"
    /\ trace' = Append(trace, "validate")
    /\ UNCHANGED <<route, request, body, raw_response, exc, outcome, closed, file_stack>>
    /\ UNCHANGED <<mutated_default, parked, calls, registering, multidict>>

\* lines 628-636 and 680-682
ParseAndValidate ==
    /\ pc = "validate"
    /\ \E r \in {parse_and_validate_request(heap, request, route.dependant, body,
                                            route._embed_body_fields)} :
          /\ heap' = r.heap
          /\ solved_result' = r.solved
          /\ IF r.solved.errors = <<>>
             THEN pc' = "invoke" /\ UNCHANGED exc
             ELSE /\ exc' = RequestValidationError(r.solved.errors, body)
                  /\ pc' = "resolve"
    /\ trace' = Append(trace, "validate")
    /\ UNCHANGED <<route, request, body, raw_response, outcome, closed, file_stack, mutated_default>>
    /\ UNCHANGED <<parked, calls, registering, multidict>>

\* --------------------------------------------------------- the endpoint
\* what an endpoint may do with its arguments: return a value, return a
\* response object of its own, or raise
EndpointValues == {PyInt(5), PyStr("5"), PyStr("x"), PyStr("secret"), PyNone}

EndpointResponses ==
    { Response("raw", "Response", 200, hs, TextBody("raw")) :
        hs \in { <<>>,
                 << <<"Content-Type", "text/html">> >>,
                 << <<"X-Custom", "1">> >> } }

EndpointRaises ==
    { HTTPException(404, "not found"), HTTPException(304, "not modified"),
      OtherError("KeyError"), OtherError("ValueError") }

\* lines 677-679: the envelope's headers the response does not carry yet
RECURSIVE MergeHeaders(_, _)
MergeHeaders(headers, envelope_headers) ==
    IF envelope_headers = <<>> THEN headers
    ELSE MergeHeaders(IF DictHas(headers, envelope_headers[1][1]) THEN headers
                      ELSE Append(headers, envelope_headers[1]),
                      Tail(envelope_headers))

\* the envelope's headers merged into the endpoint's own response object
RawResponsePassThrough_merge(raw, envelope) ==
    [raw EXCEPT !.headers = MergeHeaders(@, envelope.headers)]

\* lines 640-643: a response object the endpoint returned is the response
RawResponsePassThrough(raw, envelope) == raw

\* the parameters with a list default that the request leaves out
DefaultedLists(rt, req, bd) ==
    {f \in AbsentOptional(rt, req, bd) : f.default.t = "list"}

\* the list objects among the bound arguments
BoundLists(values) == {values[k][2].a : k \in {j \in 1..Len(values) : values[j][2].t = "list"}}

\* the names of the parameters the endpoint's signature declares
DeclaredNames(dependant) ==
    {f.name : f \in FieldsOf(dependant.query_params) \cup FieldsOf(dependant.header_params)
                    \cup FieldsOf(dependant.cookie_params) \cup FieldsOf(dependant.body_params)}

\* endpoint(**values): the call binds when every declared parameter, none of
\* which has a default in the signature, is among the keyword arguments
CallBinds(dependant, values) == \A name \in DeclaredNames(dependant) : DictHas(values, name)

\* lines 637-643: the endpoint runs once, with the bound arguments; a call
\* that does not bind raises TypeError before the endpoint's body runs
InvokeEndpoint ==
    /\ pc = "invoke"
    /\ trace' = Append(trace, "invoke")
    /\ \E mutate \in BOOLEAN :
          /\ mutate => /\ CallBinds(route.dependant, solved_result.values)
                       /\ BoundLists(solved_result.values) # {}
                       /\ \A a \in BoundLists(solved_result.values) :
                             Len(heap[a]) < Len(DeclaredDefault) + MaxMutations
          /\ heap' = IF mutate
                     THEN [a \in 1..Len(heap) |->
                             IF a \in BoundLists(solved_result.values)
                             THEN Append(heap[a], "m") ELSE heap[a]]
                     ELSE heap
          /\ mutated_default' =
                (mutated_default \/ (mutate /\ DefaultedLists(route, request, body) # {}))
    /\ \/ \E v \in EndpointValues :
             /\ CallBinds(route.dependant, solved_result.values)
             /\ raw_response' = Return(FALSE, v, NoResponse)
             /\ pc' = "serialize"
             /\ UNCHANGED <<exc, outcome, closed, file_stack>>
       \/ \E r \in EndpointResponses :
             /\ CallBinds(route.dependant, solved_result.values)
             /\ raw_response' = Return(TRUE, PyNone, r)
             /\ outcome' = Outcome("response",
                                  RawResponsePassThrough(r, solved_result.response), NoExc)
             /\ closed' = closed \cup file_stack
             /\ file_stack' = {}
             /\ pc' = "done"
             /\ UNCHANGED exc
       \/ \E e \in IF CallBinds(route.dependant, solved_result.values)
                     THEN EndpointRaises ELSE {OtherError("TypeError")} :
             /\ exc' = e
             /\ pc' = "resolve"
             /\ UNCHANGED <<raw_response, outcome, closed, file_stack>>
    /\ UNCHANGED <<route, request, body, solved_result>>
    /\ UNCHANGED <<parked, calls, registering, multidict>>

\* lines 649-655: the status code handed to the response class
ResponseStatusCode(status_code, envelope_status) ==
    LET current_status_code == IF status_code # 0 THEN status_code ELSE envelope_status
        first == IF current_status_code # 0 THEN current_status_code ELSE 200
    IN IF envelope_status # 0 THEN envelope_status ELSE first

\* lines 674-675: for a status code that allows no body, b"" is assigned to
\* an attribute named body of the response object; the response sends its
\* response iterable, which the assignment leaves as built
AssignEmptyBody(response) == response

\* lines 644-679: a value the endpoint returned is validated and wrapped
SerializeResponse ==
    /\ pc = "serialize"
    /\ trace' = Append(trace, "serialize")
    /\ LET status == ResponseStatusCode(route.status_code, solved_result.response.status)
           r == serialize_response(heap, route.response_type, raw_response.val)
           built == AssignEmptyBody(JSONResponse(r.content, status))
           response == [built EXCEPT !.headers =
                           MergeHeaders(@, solved_result.response.headers)]
       IN IF r.errors # <<>>
          THEN /\ exc' = ResponseValidationError(r.errors, raw_response.val)
               /\ pc' = "resolve"
               /\ UNCHANGED <<outcome, closed, file_stack>>
          ELSE /\ outcome' = Outcome("response", response, NoExc)
               /\ closed' = closed \cup file_stack
               /\ file_stack' = {}
               /\ pc' = "done"
               /\ UNCHANGED exc
    /\ UNCHANGED <<route, heap, request, body, solved_result, raw_response, mutated_default>>
    /\ UNCHANGED <<parked, calls, registering, multidict>>

\* ----------------------------------------------------- exception resolution
\* the first registered handler whose exception class the exception is an
\* instance of; "" when there is none
RECURSIVE FirstMatch(_, _)
FirstMatch(entries, e) ==
    IF entries = <<>> THEN ""
    ELSE IF isinstance(e, entries[1][1]) THEN entries[1][2]
    ELSE FirstMatch(Tail(entries), e)

\* every registered handler whose exception class the exception is an
\* instance of, in registration order
RECURSIVE AllMatches(_, _)
AllMatches(entries, e) ==
    IF entries = <<>> THEN <<>>
    ELSE (IF isinstance(e, entries[1][1]) THEN <<entries[1][2]>> ELSE <<>>)
         \o AllMatches(Tail(entries), e)

\* the scan without its early return: every matching handler runs and the
\* last one's response is kept
ResolveOther_all(exception_handlers, e) ==
    LET hs == AllMatches(exception_handlers.entries, e)
    IN IF hs # <<>>
       THEN [kind |-> "response", exc |-> NoExc, handlers |-> hs,
             response |-> CustomHandler(hs[Len(hs)], e)]
       ELSE [kind |-> "raised", response |-> NoResponse, exc |-> e, handlers |-> <<>>]

\* lines 699-703: the scan of the handler table for any other exception
ResolveOther(exception_handlers, e) ==
    IF FirstMatch(exception_handlers.entries, e) # ""
    THEN [kind |-> "response", exc |-> NoExc,
          handlers |-> <<FirstMatch(exception_handlers.entries, e)>>,
          response |-> CustomHandler(FirstMatch(exception_handlers.entries, e), e)]
    ELSE [kind |-> "raised", response |-> NoResponse, exc |-> e, handlers |-> <<>>]

\* lines 684-703: [kind, response, exc, handlers] for an exception raised in
\* the dispatch block, handlers being the exception handlers invoked, in order
Resolve(exception_handlers, e) ==
    IF exception_handlers.isNone
    THEN [kind |-> "raised", response |-> NoResponse, exc |-> OtherError("AttributeError"),
          handlers |-> <<>>]
    ELSE IF isinstance(e, "HTTPException")
    THEN IF DictHas(exception_handlers.entries, "HTTPException")
         THEN [kind |-> "response", exc |-> NoExc,
               handlers |-> <<DictGet(exception_handlers.entries, "HTTPException", "")>>,
               response |-> CustomHandler(DictGet(exception_handlers.entries,
                                                  "HTTPException", ""), e)]
         ELSE [kind |-> "response", exc |-> NoExc, handlers |-> <<"http_exception_handler">>,
               response |-> http_exception_handler(e)]
    ELSE IF isinstance(e, "RequestValidationError")
    THEN IF DictHas(exception_handlers.entries, "RequestValidationError")
         THEN [kind |-> "response", exc |-> NoExc,
               handlers |-> <<DictGet(exception_handlers.entries, "RequestValidationError", "")>>,
               response |-> CustomHandler(DictGet(exception_handlers.entries,
                                                  "RequestValidationError", ""), e)]
         ELSE [kind |-> "response", exc |-> NoExc,
               handlers |-> <<"request_validation_exception_handler">>,
               response |-> request_validation_exception_handler(e)]
    ELSE IF isinstance(e, "ResponseValidationError")
    THEN IF DictHas(exception_handlers.entries, "ResponseValidationError")
         THEN [kind |-> "response", exc |-> NoExc,
               handlers |-> <<DictGet(exception_handlers.entries, "ResponseValidationError", "")>>,
               response |-> CustomHandler(DictGet(exception_handlers.entries,
                                                  "ResponseValidationError", ""), e)]
         ELSE [kind |-> "response", exc |-> NoExc,
               handlers |-> <<"response_validation_exception_handler">>,
               response |-> response_validation_exception_handler(e)]
    ELSE ResolveOther(exception_handlers, e)

ResolveException ==
    /\ pc = "resolve"
    /\ LET r == Resolve(route.exception_handlers, exc)
       IN /\ outcome' = Outcome(r.kind, r.response, r.exc)
          /\ trace' = trace \o [k \in 1..Len(r.handlers) |-> "handler:" \o r.handlers[k]]
    /\ closed' = closed \cup file_stack
    /\ file_stack' = {}
    /\ pc' = "done"
    /\ UNCHANGED <<route, heap, request, body, solved_result, raw_response, exc, mutated_default>>
    /\ UNCHANGED <<parked, calls, registering, multidict>>

\* the transport takes the result; the request's objects are dropped
Finish ==
    /\ pc = "done"
    /\ pc' = "idle"
    /\ heap' = <<heap[DefaultAddr]>>
    /\ request' = NoRequest
    /\ body' = PyNone
    /\ solved_result' = NoSolved
    /\ raw_response' = NoReturn
    /\ exc' = NoExc
    /\ outcome' = NoOutcome
    /\ closed' = {}
    /\ file_stack' = {}
    /\ trace' = <<>>
    /\ UNCHANGED <<route, mutated_default>>
    /\ UNCHANGED <<parked, calls, registering, multidict>>

Next ==
    \/ Receive
    \/ ExtractBody
    \/ ParseAndValidate
    \/ InvokeEndpoint
    \/ SerializeResponse
    \/ ResolveException
    \/ Finish

Spec == Init /\ [][Next]_vars

\* ------------------------------------ two threads serving the same route
\* the routes served by two threads at once: those whose plan declares a
\* list default
ConcurrentRoutes ==
    { APIRoute(p, 0, "none", Table(FALSE, <<>>)) : p \in {1, 2} }

\* the requests the two threads serve
ConcurrentRequests(r) ==
    { req \in RequestsFor(r) :
        /\ Len(req.headers) = Len(r.dependant.header_params)
        /\ \A k \in 1..Len(req.headers) : req.headers[k][2] = PyStr("a")
        /\ IF r.body_field
           THEN /\ req.query = <<>>
                /\ req.data.t \in {"none", "dict"}
                /\ Len(req.data.d) <= 1
                /\ \A k \in 1..Len(req.data.d) : req.data.d[k][2] = PyInt(5)
           ELSE Len(req.query) <= 1 }

\* the locals of the running call
Running ==
    Call(pc, request, body, solved_result, raw_response, exc, outcome, closed,
         file_stack, trace)

\* each thread has entered handle_request with a request of its own
InitConcurrent ==
    /\ route \in ConcurrentRoutes
    /\ heap = <<DeclaredDefault>>
    /\ pc = "extract"
    /\ request \in ConcurrentRequests(route)
    /\ body = PyNone
    /\ solved_result = NoSolved
    /\ raw_response = NoReturn
    /\ exc = NoExc
    /\ outcome = NoOutcome
    /\ closed = {}
    /\ file_stack = {}
    /\ trace = <<>>
    /\ mutated_default = FALSE
    /\ \E req \in ConcurrentRequests(route) :
          parked = Call("extract", req, PyNone, NoSolved, NoReturn, NoExc, NoOutcome,
                        {}, {}, <<>>)
    /\ calls = NoCalls
    /\ registering = NoRegistration
    /\ multidict = NoMultiDicts

\* the scheduler runs the other thread: the locals of the two calls change
\* places, the route and the objects on the heap are the same for both
Switch ==
    /\ parked.pc # "none"
    /\ parked' = Running
    /\ pc' = parked.pc
    /\ request' = parked.request
    /\ body' = parked.body
    /\ solved_result' = parked.solved_result
    /\ raw_response' = parked.raw_response
    /\ exc' = parked.exc
    /\ outcome' = parked.outcome
    /\ closed' = parked.closed
    /\ file_stack' = parked.file_stack
    /\ trace' = parked.trace
    /\ UNCHANGED <<route, heap, mutated_default, calls, registering, multidict>>

NextConcurrent ==
    \/ ExtractBody
    \/ ParseAndValidate
    \/ InvokeEndpoint
    \/ SerializeResponse
    \/ ResolveException
    \/ Switch

SpecConcurrent == InitConcurrent /\ [][NextConcurrent]_vars

\* ------------------------------------------- a field validator on its own
MaxCalls == 2

\* the fields whose validator is called, one of each declared type
ValidateFields ==
    { Field("f", "f", "body", TRUE, PyNone, type) :
        type \in {"int", "str", "bytes", "seq", "model"} }
    \cup { Field("f", "f", "body", FALSE, PyInt(7), "int"),
           Field("f", "f", "body", FALSE, PyNone, "str"),
           Field("f", "f", "body", FALSE, PyList(DefaultAddr), "seq") }

\* the raw values handed to validate
ValidateInputs ==
    {PyNone, PyInt(5), PyStr("5"), PyStr("x"), PyBytes("raw"), PyList(DefaultAddr)}
    \cup JsonDocs

ValidateLocs == {<<"body">>, <<"query", "f">>}

InitValidate ==
    /\ route = APIRoute(1, 0, "none", Table(FALSE, <<>>))
    /\ heap = <<DeclaredDefault>>
    /\ pc = "idle"
    /\ request = NoRequest
    /\ body = PyNone
    /\ solved_result = NoSolved
    /\ raw_response = NoReturn
    /\ exc = NoExc
    /\ outcome = NoOutcome
    /\ closed = {}
    /\ file_stack = {}
    /\ trace = <<>>
    /\ mutated_default = FALSE
    /\ parked = NoCall
    /\ registering = NoRegistration
    /\ multidict = NoMultiDicts
    /\ \E f \in ValidateFields, v \in ValidateInputs, l \in ValidateLocs :
          calls = [field |-> f, value |-> v, loc |-> l, values |-> <<>>, results |-> <<>>,
                   bound |-> <<>>]

\* field.validate(value, values, loc=loc), values being the one dict object
\* the signature declares as its default
ValidateCall ==
    /\ Len(calls.results) < MaxCalls
    /\ \E r \in {validate(heap, calls.field, calls.value, calls.loc)} :
          /\ heap' = r.heap
          /\ calls' = [calls EXCEPT !.results =
                          Append(@, [val |-> r.val, errors |-> r.errors, isNone |-> r.isNone])]
    /\ UNCHANGED <<route, pc, request, body, solved_result, raw_response, exc, outcome,
                   closed, file_stack, trace, mutated_default, parked,
                   registering, multidict>>

\* _validate_value_with_model_field(field=field, value=value, values=values,
\* loc=loc), as the binding loops call it
BindCall ==
    /\ Len(calls.bound) < MaxCalls
    /\ \E r \in {_validate_value_with_model_field(heap, calls.field, calls.value, calls.loc)} :
          /\ heap' = r.heap
          /\ calls' = [calls EXCEPT !.bound = Append(@, [val |-> r.val, errors |-> r.errors])]
    /\ UNCHANGED <<route, pc, request, body, solved_result, raw_response, exc, outcome,
                   closed, file_stack, trace, mutated_default, parked,
                   registering, multidict>>

NextValidate ==
    \/ ValidateCall
    \/ BindCall

SpecValidate == InitValidate /\ [][NextValidate]_vars

\* ------------------------------------------------- a plan being registered
\* two plans are constructed, each for a callable and a list of scopes, and
\* the parameters of the first are classified one by one
InitRegistration ==
    /\ route = APIRoute(1, 0, "none", Table(FALSE, <<>>))
    /\ heap = <<DeclaredDefault>>
    /\ pc = "idle"
    /\ request = NoRequest
    /\ body = PyNone
    /\ solved_result = NoSolved
    /\ raw_response = NoReturn
    /\ exc = NoExc
    /\ outcome = NoOutcome
    /\ closed = {}
    /\ file_stack = {}
    /\ trace = <<>>
    /\ mutated_default = FALSE
    /\ parked = NoCall
    /\ calls = NoCalls
    /\ multidict = NoMultiDicts
    /\ \E c1 \in PlanCalls, c2 \in PlanCalls, s1 \in ScopeLists, s2 \in ScopeLists :
          registering = Registration(Dependant(<<>>, <<>>, <<>>, <<>>, c1, s1),
                                     Dependant(<<>>, <<>>, <<>>, <<>>, c2, s2), <<>>, <<>>)

\* add_param_to_fields(field=field, dependant=dependant) for the next parameter
AddParam ==
    /\ Len(registering.fields) < MaxParams
    /\ \E f \in RegistrationFields(Len(registering.fields) + 1) :
          \E r \in {add_param_to_fields(f, registering.dependant)} :
             registering' = Registration(r.dependant, registering.twin,
                                         Append(registering.fields, f),
                                         IF r.raised THEN Append(registering.rejected, f)
                                         ELSE registering.rejected)
    /\ UNCHANGED <<route, heap, pc, request, body, solved_result, raw_response, exc, outcome,
                   closed, file_stack, trace, mutated_default, parked, calls, multidict>>

NextRegistration ==
    \/ AddParam

SpecRegistration == InitRegistration /\ [][NextRegistration]_vars

\* ------------------------------------------------ multidicts being built
InitMultiDict ==
    /\ route = APIRoute(1, 0, "none", Table(FALSE, <<>>))
    /\ heap = <<DeclaredDefault>>
    /\ pc = "idle"
    /\ request = NoRequest
    /\ body = PyNone
    /\ solved_result = NoSolved
    /\ raw_response = NoReturn
    /\ exc = NoExc
    /\ outcome = NoOutcome
    /\ closed = {}
    /\ file_stack = {}
    /\ trace = <<>>
    /\ mutated_default = FALSE
    /\ parked = NoCall
    /\ calls = NoCalls
    /\ registering = NoRegistration
    /\ \E s1 \in Sources, s2 \in Sources : multidict = MultiDicts(<<s1, s2>>, <<>>)

\* the next source is handed to the constructor of its class
BuildMultiDict ==
    /\ Len(multidict.built) < Len(multidict.args)
    /\ multidict' = MultiDicts(multidict.args,
                               Append(multidict.built,
                                      Construct(multidict.args[Len(multidict.built) + 1])))
    /\ UNCHANGED <<route, heap, pc, request, body, solved_result, raw_response, exc, outcome,
                   closed, file_stack, trace, mutated_default, parked, calls, registering>>

NextMultiDict ==
    \/ BuildMultiDict

SpecMultiDict == InitMultiDict /\ [][NextMultiDict]_vars

\* ================================================================ claims
InTrace(stage) == \E k \in 1..Len(trace) : trace[k] = stage

CountIssues(errors, type, loc) ==
    Cardinality({k \in 1..Len(errors) : errors[k].type = type /\ errors[k].loc = loc})

HandlerCount ==
    Cardinality({k \in 1..Len(trace) : trace[k] \notin {"extract", "validate", "invoke", "serialize"}})

\* the issues each location produces on its own, on a heap holding the
\* declared default only
BodyIssues ==
    IF route.dependant.body_params # <<>>
    THEN request_body_to_args(<<DeclaredDefault>>, route.dependant.body_params, body,
                              route._embed_body_fields).errors
    ELSE <<>>
QueryIssues ==
    request_params_to_args(<<DeclaredDefault>>, route.dependant.query_params,
                           [multi |-> TRUE, list |-> request.query]).errors
HeaderIssues ==
    request_params_to_args(<<DeclaredDefault>>, route.dependant.header_params,
                           [multi |-> TRUE, list |-> combined_headers(request.headers)]).errors

\* C1: once a request has been validated, every required field (body, query
\* or header) that its source leaves out has exactly one issue of type
\* "missing" at its location path in the RequestValidationError raised, and
\* the endpoint has not been invoked for that request.
C1_MissingRequired ==
    (InTrace("validate") /\ AbsentRequiredLocs(route, request, body) # {}) =>
        /\ exc.kind = "RequestValidationError"
        /\ \A loc \in AbsentRequiredLocs(route, request, body) :
              CountIssues(exc.errors, "missing", loc) = 1
        /\ ~InTrace("invoke")

\* C1 witness: a validated request that leaves out a required field has been
\* answered.
C1_Witness ==
    /\ pc = "done"
    /\ InTrace("validate")
    /\ AbsentRequiredLocs(route, request, body) # {}
    /\ exc.kind = "RequestValidationError"

\* C2: validation does not stop at the first bad field: when any issue was
\* collected, exactly one RequestValidationError is raised, it carries every
\* collected issue and the body, the number of its issues is the sum of the
\* issues of the body, query and header locations, and the endpoint is not
\* invoked; without issues no RequestValidationError is raised.
C2_Aggregated ==
    InTrace("validate") =>
        IF solved_result.errors # <<>>
        THEN /\ exc = RequestValidationError(solved_result.errors, body)
             /\ Len(exc.errors) = Len(BodyIssues) + Len(QueryIssues) + Len(HeaderIssues)
             /\ \A loc \in AbsentRequiredLocs(route, request, body) :
                   CountIssues(exc.errors, "missing", loc) >= 1
             /\ ~InTrace("invoke")
        ELSE exc.kind # "RequestValidationError"

\* C2 witness: issues of two locations, query and header, are carried by the
\* one error under resolution.
C2_Witness ==
    /\ pc = "resolve"
    /\ exc.kind = "RequestValidationError"
    /\ QueryIssues # <<>>
    /\ HeaderIssues # <<>>
    /\ Len(exc.errors) >= 2

\* C3: the declared default object is never changed, and when the endpoint
\* is about to run every optional field the source leaves out is bound to a
\* value equal to the declared default, a list default to a list object
\* other than the declared one.
C3_DefaultIsolated ==
    /\ heap[DefaultAddr] = DeclaredDefault
    /\ pc = "invoke" =>
          \A f \in AbsentOptional(route, request, body) :
             /\ DictHas(solved_result.values, f.name)
             /\ LET v == DictGet(solved_result.values, f.name, PyInt(-1))
                IN IF f.default.t = "list"
                   THEN v.t = "list" /\ v.a # DefaultAddr /\ heap[v.a] = DeclaredDefault
                   ELSE v = f.default

\* C3 witness: after an endpoint has mutated a list bound from the default,
\* a later request that leaves the field out is about to reach the endpoint.
C3_Witness ==
    /\ mutated_default
    /\ pc = "invoke"
    /\ DefaultedLists(route, request, body) # {}

\* C4 (as claimed): an HTTPException raised in the endpoint of a route with a
\* handler table ends in the response of the handler registered for
\* HTTPException, or else in a response with the exception's status code and
\* the JSON body {"detail": <detail>}, the body empty when the status code
\* allows none.
C4_HttpExceptionJson ==
    (pc = "done" /\ exc.kind = "HTTPException" /\ ~route.exception_handlers.isNone) =>
        /\ outcome.kind = "response"
        /\ IF DictHas(route.exception_handlers.entries, "HTTPException")
           THEN outcome.response =
                   CustomHandler(DictGet(route.exception_handlers.entries, "HTTPException", ""), exc)
           ELSE /\ outcome.response.status = exc.status_code
                /\ outcome.response.body =
                      IF is_body_allowed_for_status_code(exc.status_code)
                      THEN JsonObjectStr("detail", exc.detail) ELSE EmptyBody

\* C5 (as claimed): a request-validation failure on a route without a handler
\* registered for RequestValidationError ends in a response with status 422
\* and body {"detail": <all the issues>}.
C5_Default422 ==
    (/\ pc = "done"
     /\ exc.kind = "RequestValidationError"
     /\ ~DictHas(route.exception_handlers.entries, "RequestValidationError")) =>
        /\ outcome.kind = "response"
        /\ outcome.response.status = 422
        /\ outcome.response.body = JsonObjectIssues("detail", exc.errors)

\* C6 (as claimed): a return value that fails response validation on a route
\* without a handler registered for ResponseValidationError ends in one and
\* the same response, status 500 with an empty body, whatever the value.
C6_Default500 ==
    (/\ pc = "done"
     /\ exc.kind = "ResponseValidationError"
     /\ ~DictHas(route.exception_handlers.entries, "ResponseValidationError")) =>
        /\ outcome.kind = "response"
        /\ outcome.response.status = 500
        /\ outcome.response.body = EmptyBody

\* C7 (as claimed): any other exception ends in the response of the first
\* registered handler whose exception class it is an instance of, and
\* propagates unchanged when no registered handler matches.
C7_FirstMatchOrPropagate ==
    (/\ pc = "done"
     /\ exc.kind \notin {"none", "HTTPException", "RequestValidationError",
                         "ResponseValidationError"}) =>
        IF FirstMatch(route.exception_handlers.entries, exc) # ""
        THEN /\ outcome.kind = "response"
             /\ outcome.response =
                   CustomHandler(FirstMatch(route.exception_handlers.entries, exc), exc)
        ELSE outcome.kind = "raised" /\ outcome.exc = exc

\* C8: at most one exception handler is invoked per request; a failed request
\* that ends in a response had exactly one handler invoked, and a handler
\* invoked means its response is the result.
C8_OneHandler ==
    /\ HandlerCount <= 1
    /\ (pc = "done" /\ exc.kind # "none" /\ outcome.kind = "response") => HandlerCount = 1
    /\ (pc = "done" /\ HandlerCount = 1) =>
          outcome.kind = "response" /\ outcome.response.obj \in {"custom", "default_handler"}

\* C8 witness: an exception that two registered handlers match has been
\* answered by one handler.
C8_Witness ==
    /\ pc = "done"
    /\ exc.kind = "KeyError"
    /\ Len(AllMatches(route.exception_handlers.entries, exc)) = 2
    /\ HandlerCount = 1

\* C9 (as claimed): on a route with a handler table, an exception leaves
\* handle_request only when it is none of HTTPException,
\* RequestValidationError and ResponseValidationError and no registered
\* handler matches it, whatever the stage that raised it.
C9_NoStageEscapes ==
    (pc = "done" /\ outcome.kind = "raised" /\ ~route.exception_handlers.isNone) =>
        /\ outcome.exc.kind \notin {"HTTPException", "RequestValidationError",
                                    "ResponseValidationError"}
        /\ FirstMatch(route.exception_handlers.entries, outcome.exc) = ""

\* C10 (as claimed): a response object returned by the endpoint is the
\* result, with every header of the envelope added to it unless it already
\* has a header of that key.
C10_RawMerged ==
    (pc = "done" /\ raw_response.isResponse) =>
        /\ outcome.kind = "response"
        /\ outcome.response.obj = "raw"
        /\ \A k \in 1..Len(solved_result.response.headers) :
              DictHas(outcome.response.headers, solved_result.response.headers[k][1])
        /\ \A k \in 1..Len(raw_response.resp.headers) :
              DictGet(outcome.response.headers, raw_response.resp.headers[k][1], "")
                 = raw_response.resp.headers[k][2]

\* C10 (amended): a response object returned by the endpoint is the result
\* exactly as returned, no envelope header added; the envelope's headers are
\* merged, without overwriting, only into the response built from a value.
C10_RawUntouched ==
    /\ (pc = "done" /\ raw_response.isResponse) =>
          outcome.kind = "response" /\ outcome.response = raw_response.resp
    /\ (pc = "done" /\ ~raw_response.isResponse /\ outcome.response.obj = "built") =>
          /\ \A k \in 1..Len(solved_result.response.headers) :
                DictHas(outcome.response.headers, solved_result.response.headers[k][1])
          /\ DictGet(outcome.response.headers, "Content-Type", "") = "application/json"

\* C10 witness: the endpoint's own response, lacking a header the envelope
\* has, is the result.
C10_Witness ==
    /\ pc = "done"
    /\ raw_response.isResponse
    /\ outcome.kind = "response"
    /\ \E k \in 1..Len(solved_result.response.headers) :
          ~DictHas(raw_response.resp.headers, solved_result.response.headers[k][1])

\* C11 (as claimed): the response built from a value the endpoint returned
\* has the route's declared status code when one was declared, else the
\* status of the response envelope, else the response class's default.
C11_ExplicitStatusWins ==
    (pc = "done" /\ outcome.kind = "response" /\ outcome.response.obj = "built") =>
        outcome.response.status =
            IF route.status_code # 0 THEN route.status_code
            ELSE IF solved_result.response.status # 0 THEN solved_result.response.status
            ELSE 200

\* C12 (as claimed): the response built on a route whose declared status
\* code allows no body (204, 205, 304 or below 200) has an empty body,
\* whatever the endpoint returned, and so has any built response whose own
\* status code allows none.
C12_NoBodyStatus ==
    (pc = "done" /\ outcome.kind = "response" /\ outcome.response.obj = "built") =>
        /\ ~is_body_allowed_for_status_code(route.status_code) =>
              outcome.response.body = EmptyBody
        /\ ~is_body_allowed_for_status_code(outcome.response.status) =>
              outcome.response.body = EmptyBody

\* C13 (as claimed): a header sent several times and bound to a sequence
\* field is bound to the list of its occurrences, one element each, in
\* arrival order.
C13_HeaderOccurrences ==
    (/\ pc = "invoke"
     /\ route.dependant.header_params # <<>>
     /\ is_sequence_field(route.dependant.header_params[1])
     /\ DictHas(request.headers, route.dependant.header_params[1].alias)) =>
        LET field == route.dependant.header_params[1]
            sent == getlist(request.headers, field.alias)
            v == DictGet(solved_result.values, field.name, PyNone)
        IN /\ v.t = "list"
           /\ heap[v.a] = [k \in 1..Len(sent) |-> sent[k].s]

\* whether the model's integer sub-fields accept the value, and the integer
\* they take it for
Coerces(v) == v.t = "int" \/ (v.t = "str" /\ IntOfStr(v.s) >= 0)

AsInt(v) == IF v.t = "int" THEN v ELSE PyInt(IntOfStr(v.s))

\* the source gives every sub-field it holds an acceptable value, and holds
\* the required one
ModelAccepts(src) ==
    /\ DictHas(src, "a") /\ Coerces(DictGet(src, "a", PyNone))
    /\ DictHas(src, "b") => Coerces(DictGet(src, "b", PyNone))

ExpectedModel(src) ==
    PyModel(<< <<"a", AsInt(DictGet(src, "a", PyNone))>>,
               <<"b", IF DictHas(src, "b") THEN AsInt(DictGet(src, "b", PyNone))
                      ELSE PyInt(0)>> >>)

\* the value nested mode assembles from the query string
AssembledQuery ==
    LET e == ExtractSubFields([heap |-> <<DeclaredDefault>>, items |-> <<>>, keys |-> {}],
                              ModelSubFields, [multi |-> TRUE, list |-> request.query])
    IN Leftover(e.items, DictItems(request.query), e.keys)

NestedQuery ==
    /\ Len(route.dependant.query_params) = 1
    /\ route.dependant.query_params[1].type = "model"

NestedBody ==
    /\ Len(route.dependant.body_params) = 1
    /\ route.dependant.body_params[1].type = "model"
    /\ ~route._embed_body_fields

\* C14: with one field of a flat model type declared for a location, every
\* sub-field found in the source is taken from the source's top-level key,
\* every other source key is kept in the assembled value with its value,
\* and the assembled value is validated once against the model: the bound
\* model holds the sub-fields' integers when the source is acceptable, the
\* issues lie under the location at sub-field keys otherwise; an unclaimed
\* key raises no issue.
C14_NestedMode ==
    /\ (InTrace("validate") /\ NestedQuery) =>
          /\ \A sf \in FieldsOf(ModelSubFields) :
                DictHas(request.query, sf.alias) =>
                   DictGet(AssembledQuery, sf.name, PyNone)
                      = DictGet(request.query, sf.alias, PyNone)
          /\ \A k \in 1..Len(request.query) :
                /\ DictHas(AssembledQuery, request.query[k][1])
                /\ DictGet(AssembledQuery, request.query[k][1], PyNone)
                      = DictGet(request.query, request.query[k][1], PyNone)
          /\ ~DictHas(AssembledQuery, route.dependant.query_params[1].name)
          /\ IF ModelAccepts(request.query)
             THEN /\ solved_result.errors = <<>>
                  /\ DictGet(solved_result.values, route.dependant.query_params[1].name, PyNone)
                        = ExpectedModel(request.query)
             ELSE /\ solved_result.errors # <<>>
                  /\ \A k \in 1..Len(solved_result.errors) :
                        /\ Len(solved_result.errors[k].loc) = 2
                        /\ solved_result.errors[k].loc[1] = "query"
                        /\ solved_result.errors[k].loc[2] \in {"a", "b"}
    /\ (InTrace("validate") /\ NestedBody /\ body.t = "dict") =>
          IF ModelAccepts(body.d)
          THEN /\ \A k \in 1..Len(solved_result.errors) :
                     solved_result.errors[k].loc[1] # "body"
               /\ solved_result.errors = <<>> =>
                     DictGet(solved_result.values, route.dependant.body_params[1].name, PyNone)
                        = ExpectedModel(body.d)
          ELSE \E k \in 1..Len(solved_result.errors) :
                  /\ Len(solved_result.errors[k].loc) = 2
                  /\ solved_result.errors[k].loc[1] = "body"
                  /\ solved_result.errors[k].loc[2] \in {"a", "b"}

\* C14 witness: a query string holding the sub-field a and the unclaimed key
\* c has been bound and the endpoint is about to run.
C14_Witness ==
    /\ pc = "invoke"
    /\ NestedQuery
    /\ DictHas(request.query, "a")
    /\ DictHas(request.query, "c")
    /\ DictGet(solved_result.values, "item", PyNone).t = "model"

\* the place of an issue in the claimed order: its location first, then the
\* declaration index of its field within the location
LocRank(loc) ==
    CASE loc[1] = "query" -> 1 [] loc[1] = "header" -> 2 [] loc[1] = "cookie" -> 3
      [] OTHER -> 4

DeclaredAt(loc) ==
    LET declared == CASE loc[1] = "query" -> route.dependant.query_params
                      [] loc[1] = "header" -> route.dependant.header_params
                      [] OTHER -> route.dependant.body_params
        fields == IF Len(declared) = 1 /\ declared[1].type = "model"
                  THEN ModelSubFields ELSE declared
    IN IF Len(loc) < 2 THEN 0
       ELSE IF \E k \in 1..Len(fields) : fields[k].alias = loc[2]
       THEN CHOOSE k \in 1..Len(fields) : fields[k].alias = loc[2]
       ELSE 0

\* C15 (as claimed): in the aggregate request-validation error no issue of a
\* later location precedes an issue of an earlier one, the locations taken
\* in the order query, header, cookie, body, and within a location the
\* issues follow the declaration order of their fields.
C15_IssueOrder ==
    exc.kind = "RequestValidationError" =>
        \A i, j \in 1..Len(exc.errors) :
           i < j =>
              /\ LocRank(exc.errors[i].loc) <= LocRank(exc.errors[j].loc)
              /\ LocRank(exc.errors[i].loc) = LocRank(exc.errors[j].loc) =>
                    DeclaredAt(exc.errors[i].loc) <= DeclaredAt(exc.errors[j].loc)

\* the request declares a JSON body that is not well-formed JSON
MalformedJson ==
    /\ route.body_field /\ ~route.is_body_form
    /\ request.content_type = "application/json"
    /\ request.data.t = "bytes"

\* C16 (as claimed): once the body of a request with malformed JSON has been
\* extracted, the request has failed with a RequestValidationError whose
\* one issue is of type json_invalid under the body location; the body is
\* not taken for absent and the endpoint is not invoked.
C16_MalformedJson ==
    (InTrace("extract") /\ MalformedJson) =>
        /\ exc.kind = "RequestValidationError"
        /\ Len(exc.errors) = 1
        /\ exc.errors[1].type = "json_invalid"
        /\ exc.errors[1].loc[1] = "body"
        /\ ~InTrace("invoke")

\* whether reading the uploaded file raises
ReadFails(fileobj) ==
    /\ fileobj.has_read
    /\ fileobj.content_length > 0
    /\ fileobj.content_length <= MAX_IN_MEMORY_FILE_SIZE
    /\ fileobj.read_raises

\* the first uploaded file, in arrival order, that ends body extraction
FirstFailing ==
    LET files == MultiDictItems(request.files)
        fails == {k \in 1..Len(files) : ~files[k][2].has_read \/ ReadFails(files[k][2])}
    IN IF fails = {} THEN 0 ELSE CHOOSE k \in fails : \A j \in fails : k <= j

\* C17: when body extraction meets an uploaded file object that cannot be
\* read, the HTTPException raised for it is what leaves the extraction
\* stage, status code 400 and detail as raised; no later stage runs and the
\* exception is not turned into a RequestValidationError or another error.
C17_HttpExceptionUnchanged ==
    (/\ InTrace("extract")
     /\ route.body_field /\ route.is_body_form
     /\ FirstFailing # 0
     /\ ~MultiDictItems(request.files)[FirstFailing][2].has_read) =>
        /\ pc = "done"
        /\ trace = <<"extract">>
        /\ outcome.kind = "raised"
        /\ outcome.exc = HTTPException(400, "Cannot process the uploaded file")

\* C17 witness: extraction has ended with the HTTPException raised for an
\* unreadable file object.
C17_Witness ==
    /\ pc = "done"
    /\ trace = <<"extract">>
    /\ FirstFailing # 0
    /\ outcome.exc.kind = "HTTPException"
    /\ outcome.exc.status_code = 400

\* the uploaded file objects body extraction has read or wrapped: those
\* with a read method, up to and including the one whose read raised
TouchedFiles ==
    LET files == MultiDictItems(request.files)
    IN {k \in 1..Len(files) :
          /\ files[k][2].has_read
          /\ FirstFailing = 0 \/ k <= FirstFailing}

\* C18 (as claimed): when handle_request has returned or raised, every
\* uploaded file object it read or wrapped during body extraction is closed.
C18_FilesClosed ==
    (pc = "done" /\ route.body_field /\ route.is_body_form) =>
        \A k \in TouchedFiles : k \in closed

\* a value with the list object it refers to in place of the address
Contents(h, v) == <<[v EXCEPT !.a = 0], IF v.t = "list" THEN h[v.a] ELSE <<>>>>

\* C20: the calls of validate made so far on one raw value with one loc
\* have all returned equal parsed values and equal issue lists, each what a
\* single call on a fresh heap returns; the raw value's list object, the
\* declared default and the shared default dict `values` are as they were
\* before the first call.
C20_ValidateIdempotent ==
    calls.results # <<>> =>
        LET alone == validate(<<DeclaredDefault>>, calls.field, calls.value, calls.loc)
        IN /\ \A k \in 1..Len(calls.results) :
                 /\ Contents(heap, calls.results[k].val) = Contents(alone.heap, alone.val)
                 /\ calls.results[k].errors = alone.errors
                 /\ calls.results[k].isNone = alone.isNone
           /\ heap[DefaultAddr] = DeclaredDefault
           /\ calls.values = <<>>
           /\ calls.field \in ValidateFields

\* C20 witness: validate has been called twice on a list, each call
\* returning a list object of its own.
C20_Witness ==
    /\ Len(calls.results) = 2
    /\ calls.value.t = "list"
    /\ calls.results[1].val.t = "list"
    /\ calls.results[1].val.a # calls.results[2].val.a

InSeq(x, seq) == \E k \in 1..Len(seq) : seq[k] = x

\* what a call serving the request alone, on a heap holding the declared
\* default only, extracts and binds
AloneBody(req) == IF route.body_field THEN ExtractJsonBody(req) ELSE PyNone

AloneSolved(c) ==
    parse_and_validate_request(<<DeclaredDefault>>, c.request, route.dependant, c.body,
                               route._embed_body_fields)

\* what a call alone returns or raises for what its endpoint did
AloneOutcome(c) ==
    IF c.exc.kind # "none"
    THEN LET r == Resolve(route.exception_handlers, c.exc)
         IN Outcome(r.kind, r.response, r.exc)
    ELSE IF c.raw_response.isResponse
    THEN Outcome("response", c.raw_response.resp, NoExc)
    ELSE LET r == serialize_response(<<DeclaredDefault>>, route.response_type,
                                     c.raw_response.val)
             built == JSONResponse(r.content,
                                   ResponseStatusCode(route.status_code,
                                                      WerkzeugResponse_default.status))
         IN Outcome("response",
                    [built EXCEPT !.headers = MergeHeaders(@, WerkzeugResponse_default.headers)],
                    NoExc)

\* the call stands where it would stand had it run alone: the same body,
\* the same issues, the same envelope, the same bound arguments (a bound
\* list holding what it would hold alone, followed by nothing but what the
\* call's own endpoint appended), the same result
AsAlone(c) ==
    /\ InSeq("extract", c.trace) => c.body = AloneBody(c.request)
    /\ InSeq("validate", c.trace) =>
          LET alone == AloneSolved(c)
              values == c.solved_result.values
          IN /\ c.solved_result.errors = alone.solved.errors
             /\ c.solved_result.response = alone.solved.response
             /\ Len(values) = Len(alone.solved.values)
             /\ \A k \in 1..Len(values) :
                   LET v == values[k][2]
                       w == alone.solved.values[k][2]
                   IN /\ values[k][1] = alone.solved.values[k][1]
                      /\ IF v.t = "list"
                         THEN /\ w.t = "list"
                              /\ Len(heap[v.a]) >= Len(alone.heap[w.a])
                              /\ SubSeq(heap[v.a], 1, Len(alone.heap[w.a])) = alone.heap[w.a]
                              /\ Len(heap[v.a]) <= Len(alone.heap[w.a]) + MaxMutations
                              /\ ~InSeq("invoke", c.trace) => heap[v.a] = alone.heap[w.a]
                         ELSE v = w
    /\ c.pc = "done" => c.outcome = AloneOutcome(c)

\* C19: while two threads serve the same route in any interleaving, the
\* route (binding plan, fields, response field, handler table) is never
\* changed and its declared default stays as declared; the list objects
\* bound for one call are objects of that call only, none of them the
\* declared default; and each call stands, at every step, where it would
\* stand had it run alone.
C19_Isolated ==
    /\ [][route' = route]_vars
    /\ [](/\ heap[DefaultAddr] = DeclaredDefault
          /\ BoundLists(solved_result.values) \cap BoundLists(parked.solved_result.values) = {}
          /\ DefaultAddr \notin BoundLists(solved_result.values)
                                   \cup BoundLists(parked.solved_result.values)
          /\ AsAlone(Running)
          /\ AsAlone(parked))

\* C19 witness: both calls have a list bound from the declared default, the
\* endpoint of one has appended to its list and the other call is about to
\* invoke its endpoint.
C19_Witness ==
    /\ pc = "invoke"
    /\ InSeq("invoke", parked.trace)
    /\ mutated_default
    /\ DefaultedLists(route, request, body) # {}
    /\ DefaultedLists(route, parked.request, parked.body) # {}
    /\ \E a \in BoundLists(parked.solved_result.values) : heap[a] # DeclaredDefault

\* C21: every call of validate returns: either a parsed value with None in
\* place of issues, or None with a non-empty list of issues, never a value
\* together with issues; the loc of every issue returned begins with the
\* loc the caller passed.
C21_ValueOrIssues ==
    \A k \in 1..Len(calls.results) :
       LET r == calls.results[k]
       IN IF r.isNone
          THEN r.errors = <<>>
          ELSE /\ r.val = PyNone
               /\ r.errors # <<>>
               /\ \A j \in 1..Len(r.errors) :
                     /\ Len(r.errors[j].loc) >= Len(calls.loc)
                     /\ SubSeq(r.errors[j].loc, 1, Len(calls.loc)) = calls.loc

\* C21 witness: validate has returned the issues of a model whose required
\* sub-field is missing, located below the loc passed.
C21_Witness ==
    /\ calls.results # <<>>
    /\ ~calls.results[1].isNone
    /\ calls.field.type = "model"
    /\ \E j \in 1..Len(calls.results[1].errors) :
          /\ calls.results[1].errors[j].type = "missing"
          /\ Len(calls.results[1].errors[j].loc) > Len(calls.loc)

\* the location lists of a plan, by name
PlanLists(d) ==
    [path |-> d.path_params, query |-> d.query_params, header |-> d.header_params,
     cookie |-> d.cookie_params, body |-> d.body_params]

PlanListNames == {"path", "query", "header", "cookie", "body"}

\* how many places of the plan's lists hold the field
Occurrences(f, d) ==
    Cardinality({<<n, k>> \in PlanListNames \X (1..MaxParams + 1) :
                    k <= Len(PlanLists(d)[n]) /\ PlanLists(d)[n][k] = f})

C23_EveryParameterBound ==
    (pc = "invoke" /\ solved_result.errors = <<>>) =>
        \A f \in FieldsOf(route.dependant.query_params) \cup FieldsOf(route.dependant.header_params)
                 \cup FieldsOf(route.dependant.cookie_params)
                 \cup FieldsOf(route.dependant.body_params) :
           Cardinality({k \in 1..Len(solved_result.values) :
                           solved_result.values[k][1] = f.name}) = 1

\* the same, for the plans that declare no cookie parameter
C23_BoundButCookies ==
    (pc = "invoke" /\ solved_result.errors = <<>> /\ route.dependant.cookie_params = <<>>) =>
        \A f \in FieldsOf(route.dependant.query_params) \cup FieldsOf(route.dependant.header_params)
                 \cup FieldsOf(route.dependant.body_params) :
           Cardinality({k \in 1..Len(solved_result.values) :
                           solved_result.values[k][1] = f.name}) = 1

\* the stages of handle_request entered so far, handlers left out
Stages(tr) == SelectSeq(tr, LAMBDA x : x \in {"extract", "validate", "invoke", "serialize"})

StageOrder == <<"extract", "validate", "invoke", "serialize">>

\* C24: the stages run in the order extraction, validation, invocation,
\* serialization, each at most once per request; the endpoint is invoked only
\* after extraction and validation ended with zero issues; serialization runs
\* only after the endpoint returned a value that is not a response object;
\* and once a failure has been raised no further stage runs.
C24_StageOrder ==
    /\ [](/\ Len(Stages(trace)) <= Len(StageOrder)
          /\ Stages(trace) = SubSeq(StageOrder, 1, Len(Stages(trace)))
          /\ InTrace("invoke") => solved_result.errors = <<>>
          /\ InTrace("serialize") => ~raw_response.isResponse)
    /\ [][((exc # NoExc \/ outcome.kind = "raised") /\ trace' # <<>>) =>
              Stages(trace') = Stages(trace)]_vars

\* a request served through all four stages
C24_Witness == Stages(trace) = StageOrder /\ outcome.kind = "response"

\* the issues of the validated request that lie in the body
BodyErrors == SelectSeq(solved_result.errors, LAMBDA e : e.loc[1] = "body")

SingleNotEmbedded ==
    Len(route.dependant.body_params) = 1 /\ ~route._embed_body_fields

\* C25: with exactly one body field that is not embedded, the whole received
\* body is validated as that field, its issues lie at ("body",) or below it
\* at the keys of the body, never under the field's own alias, and the
\* field's name is bound; otherwise each body field is read from the body
\* under its alias, its issues lie at ("body", alias), and the field's name
\* is among the values exactly when it produced no issue.
C25_BodyBinding ==
    (InTrace("validate") /\ route.dependant.body_params # <<>>) =>
        IF SingleNotEmbedded
        THEN LET field == route.dependant.body_params[1]
             IN /\ DictHas(solved_result.values, field.name)
                /\ \A k \in 1..Len(BodyErrors) :
                      \/ BodyErrors[k].loc = <<"body">>
                      \/ /\ Len(BodyErrors[k].loc) = 2
                         /\ BodyErrors[k].loc[2] \in {sf.alias : sf \in FieldsOf(ModelSubFields)}
                         /\ body.t = "dict"
                /\ body.t = "none" =>
                      /\ Len(BodyErrors) = 1
                      /\ BodyErrors[1].type = "missing"
                      /\ BodyErrors[1].loc = <<"body">>
                /\ body.t \notin {"none", "dict"} =>
                      /\ BodyErrors # <<>>
                      /\ \A k \in 1..Len(BodyErrors) : BodyErrors[k].loc = <<"body">>
                /\ (body.t = "dict" /\ ModelAccepts(body.d)) =>
                      /\ BodyErrors = <<>>
                      /\ DictGet(solved_result.values, field.name, PyNone) = ExpectedModel(body.d)
        ELSE /\ \A k \in 1..Len(BodyErrors) :
                   /\ Len(BodyErrors[k].loc) = 2
                   /\ BodyErrors[k].loc[2]
                         \in {f.alias : f \in FieldsOf(route.dependant.body_params)}
             /\ \A f \in FieldsOf(route.dependant.body_params) :
                   /\ DictHas(solved_result.values, f.name)
                         <=> ~\E k \in 1..Len(BodyErrors) : BodyErrors[k].loc = <<"body", f.alias>>
                   /\ (f.type = "int" /\ body.t = "dict" /\ DictHas(body.d, f.alias)
                       /\ Coerces(DictGet(body.d, f.alias, PyNone))) =>
                         /\ DictHas(solved_result.values, f.name)
                         /\ DictGet(solved_result.values, f.name, PyNone)
                               = AsInt(DictGet(body.d, f.alias, PyNone))
                   /\ (f.required /\ BodyLacks(body, f.alias)) =>
                         CountIssues(solved_result.errors, "missing", <<"body", f.alias>>) = 1

\* an embedded body with one field bound and another refused
C25_Witness ==
    /\ InTrace("validate")
    /\ Len(route.dependant.body_params) > 1
    /\ DictHas(solved_result.values, "a")
    /\ BodyErrors # <<>>

\* a single model body bound whole
C25_WitnessSingle ==
    /\ InTrace("validate")
    /\ SingleNotEmbedded
    /\ body.t = "dict"
    /\ BodyErrors = <<>>

\* the scope names a plan was given, as a set
GivenScopes(d) == IF d.security_scopes.isNone THEN {} ELSE SetOf(d.security_scopes.items)

\* Python's order on the scope names under study
ScopeLess(x, y) == <<x, y>> \in {<<"admin", "read">>, <<"admin", "write">>, <<"read", "write">>}

\* C26: the cache key of a plan is its callable together with the distinct
\* scopes it was given in ascending order, whatever the order and the
\* repetitions they were given in; a plan given no scopes has the empty
\* tuple; so two plans have equal keys exactly when they have the same
\* callable and the same set of scopes, and classifying parameters leaves
\* the key as it was.
C26_CacheKey ==
    /\ \A d \in {registering.dependant, registering.twin} :
          /\ d.cache_key.call = d.call
          /\ SetOf(d.cache_key.scopes) = GivenScopes(d)
          /\ \A k \in 1..(Len(d.cache_key.scopes) - 1) :
                ScopeLess(d.cache_key.scopes[k], d.cache_key.scopes[k + 1])
          /\ GivenScopes(d) = {} => d.cache_key.scopes = <<>>
    /\ (registering.dependant.cache_key = registering.twin.cache_key)
          <=> /\ registering.dependant.call = registering.twin.call
              /\ GivenScopes(registering.dependant) = GivenScopes(registering.twin)

\* two plans for the same callable, one given two scopes in descending order,
\* the other given them in ascending order, after a parameter was classified
C26_Witness ==
    /\ registering.dependant.call = "f"
    /\ registering.twin.call = "f"
    /\ registering.dependant.security_scopes = Scopes(FALSE, <<"read", "admin">>)
    /\ registering.twin.security_scopes = Scopes(FALSE, <<"admin", "read">>)
    /\ registering.dependant.cache_key = registering.twin.cache_key
    /\ registering.dependant.query_params # <<>>

\* C27 (as claimed): on a route of a router constructed without
\* exception_handlers, a failure raised in the dispatch block ends in the
\* response of the default handler of its kind, or in the original exception
\* leaving handle_request; resolution raises no exception of its own.
C27_ResolutionNeverFails ==
    (/\ pc = "done"
     /\ exc # NoExc
     /\ route.exception_handlers.isNone) =>
        IF exc.kind = "HTTPException"
        THEN outcome.kind = "response" /\ outcome.response = http_exception_handler(exc)
        ELSE IF exc.kind = "RequestValidationError"
        THEN /\ outcome.kind = "response"
             /\ outcome.response = request_validation_exception_handler(exc)
        ELSE IF exc.kind = "ResponseValidationError"
        THEN /\ outcome.kind = "response"
             /\ outcome.response = response_validation_exception_handler(exc)
        ELSE outcome.kind = "raised" /\ outcome.exc = exc

\* C28 (as claimed): when reading an uploaded file raises during body
\* extraction, what leaves handle_request is an HTTPException with status
\* code 400 and detail "There was an error parsing the body".
C28_ParsingError400 ==
    (/\ InTrace("extract")
     /\ route.body_field /\ route.is_body_form
     /\ FirstFailing # 0
     /\ MultiDictItems(request.files)[FirstFailing][2].has_read) =>
        /\ pc = "done"
        /\ outcome.kind = "raised"
        /\ outcome.exc = HTTPException(400, "There was an error parsing the body")

\* C29: _validate_value_with_model_field on None returns, whatever the type
\* of the field, one "missing" issue at the loc passed and no value when the
\* field is required, and a copy of the default with no issues when it is
\* optional, a list default copied into a list object of its own and itself
\* left as declared; on any other value it returns what the validator
\* returns: the validated value with no issues, or no value with a non-empty
\* list of issues.
C29_NullIsAbsent ==
    \A k \in 1..Len(calls.bound) :
       LET r == calls.bound[k]
       IN IF calls.value.t = "none"
          THEN IF calls.field.required
               THEN /\ r.val = PyNone
                    /\ Len(r.errors) = 1
                    /\ r.errors[1].type = "missing"
                    /\ r.errors[1].loc = calls.loc
               ELSE /\ r.errors = <<>>
                    /\ Contents(heap, r.val) = <<[calls.field.default EXCEPT !.a = 0],
                                                 IF calls.field.default.t = "list"
                                                 THEN DeclaredDefault ELSE <<>>>>
                    /\ r.val.t = "list" =>
                          /\ r.val.a # DefaultAddr
                          /\ \A j \in 1..Len(calls.bound) :
                                j # k => calls.bound[j].val.a # r.val.a
                    /\ heap[DefaultAddr] = DeclaredDefault
          ELSE LET alone == validate(<<DeclaredDefault>>, calls.field, calls.value, calls.loc)
               IN IF alone.isNone
                  THEN /\ r.errors = <<>>
                       /\ Contents(heap, r.val) = Contents(alone.heap, alone.val)
                  ELSE /\ r.val = PyNone
                       /\ r.errors # <<>>
                       /\ r.errors = alone.errors

\* an optional field with a list default bound twice from None, and each time
\* to a list object of its own
C29_Witness ==
    /\ Len(calls.bound) = 2
    /\ calls.value.t = "none"
    /\ ~calls.field.required
    /\ calls.bound[1].val.t = "list"
    /\ calls.bound[2].val.t = "list"

\* the items a source gives, as the pairs the mapping is to hold
GivenItems(src) == IF src.isStr THEN parse_qsl(src.data) ELSE src.data

\* how many times the pair occurs among the items
Count(items, p) == Cardinality({k \in 1..Len(items) : items[k] = p})

\* the two lists of items hold the same pairs the same number of times
SameMultiset(xs, ys) ==
    \A p \in {xs[k] : k \in 1..Len(xs)} \cup {ys[k] : k \in 1..Len(ys)} :
       Count(xs, p) = Count(ys, p)

\* the positions of the key among the items, in ascending order
PositionsOf(items, key) ==
    SelectSeq([k \in 1..Len(items) |-> k], LAMBDA k : items[k][1] = key)

\* what the claim says of one multidict built from the items of its source
LookupAsClaimed(md, items) ==
    \A key \in {"a", "b", ""} :
       LET at == PositionsOf(items, key)
       IN /\ multidict_getlist(md, key) = [j \in 1..Len(at) |-> items[at[j]][2]]
          /\ multidict_contains(md, key) <=> multidict_getlist(md, key) # <<>>
          /\ multidict_contains(md, key) =>
                multidict_getitem(md, key) = items[at[Len(at)]][2]

\* a query string's segment "a=" or "a" gives the key with the value ""
BlankKept(src, md) ==
    src.isStr =>
       \A k \in 1..Len(src.data) :
          (src.data[k][1] # "" /\ src.data[k][3] = "") =>
             /\ multidict_contains(md, src.data[k][1])
             /\ \E j \in 1..Len(multidict_getlist(md, src.data[k][1])) :
                   multidict_getlist(md, src.data[k][1])[j] = ""

====
